---- MODULE Spec2Model ----
(***************************************************************************)
(* A model of the goverrun load-generation engine: the fluent request /    *)
(* response / assertion layer, the trace store (step-log writers and the   *)
(* scenario index), the scheduler of Run (scenario tasks, user tasks, the  *)
(* WaitGroup) and the teardown writeSummaryAndCloseFiles, which Run defers *)
(* and the interrupt handler calls.                                        *)
(*                                                                         *)
(* Time is a discrete clock `now` (0 is the zero time.Time).  The clock    *)
(* advances while tasks sleep or wait for a response; a task that can run  *)
(* does so before the clock moves on, in any order with the other tasks.   *)
(***************************************************************************)
EXTENDS Integers, Sequences, FiniteSets, Bags, TLC

\* ------------------------------------------------------------------ bounds
MaxCalls == 3      \* calls chained on one Response (assertions, MarkAsFailed, ArchiveStats)
MaxTime == 6       \* the clock stops here
MaxLoops == 2      \* loops of one virtual user

\* ------------------------------------------------------------------ values
None == "none"
Nil == << >>       \* the nil error, and the empty string of AssertionFailed

Titles == {"s1", "s2"}
StepNames == {"a", "b"}
UserIdx == 1 .. 3
Users == Titles \X UserIdx

\* A Go error is the chain of its wrapped errors, outermost first.
ErrTimeout == <<"Get url", "context deadline exceeded">>
ErrBodyTimeout == <<"i/o timeout">>
ErrRefused == <<"Get url", "dial tcp", "connection refused">>
ErrRedirects == <<"Get url", "stopped after 10 redirects">>
ErrClosedBody == <<"http: read on closed response body">>
ErrBodyEOF == <<"unexpected EOF">>

\* net.Error with Timeout() true
IsNetTimeout(err) == err \in {ErrTimeout, ErrBodyTimeout}

RECURSIVE UnwrapDeepestError(_)
UnwrapDeepestError(currentErr) ==
    IF currentErr = Nil THEN ""
    ELSE IF Len(currentErr) > 1 THEN UnwrapDeepestError(Tail(currentErr))
    ELSE Head(currentErr)

\* Response bodies are byte strings; a status code has its status text.
Bodies == {<< >>, <<"h", "i">>}
StatusOf(code) == CASE code = 200 -> "200 OK"
                    [] code = 502 -> "502 Bad Gateway"
                    [] OTHER -> ""

VARIABLES
    now,                   \* the clock
    \* --- one Response under construction (request builder, send, assertions)
    tuser,                 \* the User the step is built for
    request,               \* <<the Request the builder returned>>, << >> before
    response,              \* <<the Response the send returned>>, << >> before
    transport,             \* <<what the transport yielded to the send>>
    calls,                 \* the calls made on the Response, in order
    panicked,              \* a nil dereference ended the goroutine
    dispatched,            \* HTTP requests handed to the transport
    \* --- trace store
    folder,                \* the report folder, "" when none
    stepHistogramWriters,  \* step name -> stepGobWriter
    files,                 \* files[k] is the stream of step-k.goverrun
    histogramLock,         \* holder of histogramLock, or Unlocked
    scenariosWriter,       \* the scenario index: created, its stream, closed
    closeLock,             \* holder of closeLock, or None
    closed,                \* the teardown has run
    td,                    \* the calls of writeSummaryAndCloseFiles, by caller
    created,               \* the step names os.Create was called for, in order
    lockOrder,             \* per step name, the entries in the order writeStepEntry locked
    firstExpectation,      \* per step name, <<the Expectation of the step that created the writer>>
    \* --- scheduler
    scenarios,             \* title -> Scenario (registered before Run)
    mainpc,                \* where Run is
    pending,               \* scenarios Run has not visited yet
    wg,                    \* the WaitGroup counter
    sc,                    \* the scenario tasks
    us,                    \* the user tasks and their User
    currentLoopingUsers,   \* the looping-users gauge per scenario
    archiveCalled,         \* Responses ArchiveStats was called on
    jars,                  \* the cookie jars created so far (cookiejar.New)
    exited,                \* <<the exit status of the process>>, << >> while it runs
    \* --- program setup
    cli,                   \* the command line, its flag sets and what main did with them
    addResult,             \* <<the outcome of the last AddScenario call>>
    duration,              \* <<the last RandomDuration call: min, max and what it returned>>
    \* --- analyzer
    report,                \* <<the last call into the analyzer: what it was given and what it made of it>>
    \* --- one send with its tracing hooks
    trace                  \* the send in progress, the transport's tasks and the Timestamps

respVars == <<tuser, request, response, transport, calls, panicked, dispatched>>
storeVars == <<folder, stepHistogramWriters, files, histogramLock>>
closeVars == <<scenariosWriter, closeLock, closed, td>>
ghostVars == <<created, lockOrder, archiveCalled, firstExpectation>>
schedVars == <<scenarios, mainpc, pending, wg, sc, us, currentLoopingUsers, exited>>
setupVars == <<cli, addResult, duration, report, trace>>
vars == <<now, setupVars, jars, respVars, storeVars, closeVars, ghostVars, schedVars>>

\* ------------------------------------------------------------- gob streams
\* gob sends the description of a struct type once per stream, before the
\* first value of that type; int and string need none.
BasicTypes == {"int", "string"}

GobEncode(sent, type, val) ==
    IF type \in BasicTypes \/ type \in sent
    THEN <<[def |-> FALSE, type |-> type, val |-> val]>>
    ELSE <<[def |-> TRUE, type |-> type, val |-> None],
           [def |-> FALSE, type |-> type, val |-> val]>>

\* a mutex nobody holds; one held by a user task holds the user <<title, index>>,
\* one held by a call of the teardown its caller <<"main">> or <<"sig">>
Unlocked == << >>
CallOf(c) == <<c>>

NewWriter(fileNo) == [file |-> fileNo, lock |-> Unlocked, closed |-> FALSE, sent |-> {}]

\* gobEncoder.Encode on a writer: the stream grows unless the gzip writer is closed
EncodeOk(w) == ~w.closed
EncodeOn(w, type) == [w EXCEPT !.sent = IF type \in BasicTypes THEN @ ELSE @ \cup {type}]

\* ---------------------------------------------------------------- Response
NoTimestamps == [Start |-> 0, WroteRequest |-> 0, GotFirstResponseByte |-> 0, Done |-> 0]

\* classification of a transport failure, on dispatch and again on body read
ClassifyMutant(rsp, err) ==
    IF IsNetTimeout(err) THEN [rsp EXCEPT !.Error = err]
    ELSE [rsp EXCEPT !.Timeout = err]

Classify(rsp, err) ==
    IF IsNetTimeout(err) /\ rsp.Error = Nil THEN [rsp EXCEPT !.Timeout = err]
    ELSE IF rsp.Timeout = Nil THEN [rsp EXCEPT !.Error = err]
    ELSE rsp

\* the bytes of the headers of a request and of a response
HeaderSize == 1

\* What HttpClient.Do and the body read can yield: the error of Do, whether a
\* response came with it, and the error of io.ReadAll.  A response that comes
\* with an error (CheckRedirect failed) has its body closed already.
Transports ==
    {[doErr |-> Nil, hasRsp |-> TRUE, bodyErr |-> e] : e \in {Nil, ErrBodyTimeout, ErrBodyEOF}}
    \cup {[doErr |-> e, hasRsp |-> FALSE, bodyErr |-> Nil] : e \in {ErrTimeout, ErrRefused}}
    \cup {[doErr |-> ErrRedirects, hasRsp |-> TRUE, bodyErr |-> ErrClosedBody]}

executeRequestWithTracing(scenario, step, tr, code, body, t) ==
    LET rsp0 == [Scenario |-> scenario, Step |-> step,
                 Timestamps |-> [NoTimestamps EXCEPT !.Start = t, !.Done = t],
                 Timeout |-> Nil, Error |-> Nil, AssertionFailed |-> Nil,
                 StatusCode |-> 0, Status |-> "", Body |-> << >>,
                 RequestSize |-> 0, ResponseSize |-> 0, archived |-> FALSE]
        rsp1 == IF tr.doErr # Nil THEN Classify(rsp0, tr.doErr) ELSE rsp0
        rsp2 == IF tr.hasRsp /\ tr.bodyErr # Nil THEN Classify(rsp1, tr.bodyErr) ELSE rsp1
        respBody == IF tr.hasRsp /\ tr.bodyErr = Nil THEN body ELSE << >>
        rsp3 == IF tr.hasRsp
                THEN [rsp2 EXCEPT !.StatusCode = code, !.Status = StatusOf(code), !.Body = respBody]
                ELSE rsp2
    IN  [rsp3 EXCEPT !.RequestSize = HeaderSize,
                     !.ResponseSize = (IF tr.hasRsp THEN HeaderSize ELSE 0) + Len(respBody)]

ConsideredUnsuccessfulMutant(rsp) ==
    rsp.Error # Nil \/ rsp.Timeout # Nil

ConsideredUnsuccessful(rsp) ==
    Len(rsp.AssertionFailed) > 0 \/ rsp.Error # Nil \/ rsp.Timeout # Nil

MarkAsFailed(rsp, message) == [rsp EXCEPT !.AssertionFailed = message]

\* strings.Contains and the regular expressions of the model
Contains(body, s) ==
    \E i \in 1 .. Len(body) + 1 :
        /\ i + Len(s) - 1 <= Len(body)
        /\ SubSeq(body, i, i + Len(s) - 1) = s
RegExps == {"^h", "^$"}
Matches(re, body) ==
    CASE re = "^h" -> Len(body) > 0 /\ body[1] = "h"
      [] re = "^$" -> Len(body) = 0

\* The assertions a scenario can chain: the kind and its argument.
Assertions ==
    {[kind |-> "Assert", arg |-> ok] : ok \in BOOLEAN}
    \cup {[kind |-> "AssertStatusCode", arg |-> c] : c \in {200}}
    \cup {[kind |-> "AssertStatus", arg |-> s] : s \in {"200 OK"}}
    \cup {[kind |-> "AssertBodyMatches", arg |-> re] : re \in RegExps}
    \cup {[kind |-> "AssertBodyContains", arg |-> s] : s \in {<<"h">>}}
    \cup {[kind |-> "AssertBodySizeAtLeast", arg |-> n] : n \in {1}}
    \cup {[kind |-> "AssertBodySizeAtMost", arg |-> n] : n \in {1}}

\* the condition each assertion tests
AssertionOk(a, rsp) ==
    CASE a.kind = "Assert" -> a.arg
      [] a.kind = "AssertStatusCode" -> rsp.StatusCode = a.arg
      [] a.kind = "AssertStatus" -> rsp.Status = a.arg
      [] a.kind = "AssertBodyMatches" -> Matches(a.arg, rsp.Body)
      [] a.kind = "AssertBodyContains" -> Contains(rsp.Body, a.arg)
      [] a.kind = "AssertBodySizeAtLeast" -> Len(rsp.Body) >= a.arg
      [] a.kind = "AssertBodySizeAtMost" -> Len(rsp.Body) <= a.arg

\* the message each assertion stores when it fails (fmt.Sprint of the parts)
AssertionMessage(a, rsp) ==
    CASE a.kind = "Assert" -> <<"assertion of function on response failed ", "message">>
      [] a.kind = "AssertStatusCode" ->
            <<"assertion of status code failed: got ", rsp.StatusCode, " want ", a.arg>>
      [] a.kind = "AssertStatus" ->
            <<"assertion of status failed: got ", rsp.Status, " want ", a.arg>>
      [] a.kind = "AssertBodyMatches" ->
            <<"assertion of body content failed (response body did not match expected regular expression): ", a.arg>>
      [] a.kind = "AssertBodyContains" ->
            <<"assertion of body content failed (response body did not contain expected value): ", a.arg>>
      [] a.kind = "AssertBodySizeAtLeast" ->
            <<"assertion of body size failed (response body was shorter than expected value): got ",
              Len(rsp.Body), " want >=", a.arg>>
      [] a.kind = "AssertBodySizeAtMost" ->
            <<"assertion of body size failed (response body was longer than expected value): got ",
              Len(rsp.Body), " want <=", a.arg>>

ApplyAssertion(rsp, a) ==
    IF ConsideredUnsuccessful(rsp) THEN rsp
    ELSE IF ~AssertionOk(a, rsp) THEN MarkAsFailed(rsp, AssertionMessage(a, rsp))
    ELSE rsp

stepEntry(rsp) ==
    [Scenario |-> rsp.Scenario,
     Timestamps |-> rsp.Timestamps,
     Timeout |-> rsp.Timeout # Nil,
     TimeoutRootCause |-> UnwrapDeepestError(rsp.Timeout),
     Error |-> rsp.Error # Nil,
     ErrorRootCause |-> UnwrapDeepestError(rsp.Error),
     AssertionFailed |-> Len(rsp.AssertionFailed) > 0,
     AssertionFailedRootCause |-> rsp.AssertionFailed,
     StatusCode |-> rsp.StatusCode,
     RequestSize |-> rsp.RequestSize,
     ResponseSize |-> rsp.ResponseSize]

\* ------------------------------------------------------------- trace store
NoWriters == [n \in {} |-> None]

\* the store as a pair: the writer registry and the files
Store(ws, fs) == [w |-> ws, f |-> fs]

\* one gobEncoder.Encode(val) on the writer of step `name`
Encode(st, name, type, val) ==
    LET w == st.w[name] IN
    IF ~EncodeOk(w) THEN st
    ELSE Store([st.w EXCEPT ![name] = EncodeOn(w, type)],
               [st.f EXCEPT ![w.file] = @ \o GobEncode(w.sent, type, val)])

\* os.Create of step-N.goverrun, N = len(stepHistogramWriters)+1, and the
\* registration of its writer
CreateWriter(st, name) ==
    LET fileNo == Cardinality(DOMAIN st.w) + 1 IN
    Store((name :> NewWriter(fileNo)) @@ st.w, (fileNo :> << >>) @@ st.f)

FormatVersion == 1

writeStepNameInit(st, name, expectation) ==
    Encode(Encode(Encode(st, name, "int", FormatVersion), name, "string", name),
           name, "Expectation", expectation)

writeStepEntry(st, name, entry) == Encode(st, name, "StepEntry", entry)

\* the condition under which ArchiveStats writes
ShouldArchiveMutant(rsp) == Len(folder) > 0

ShouldArchive(rsp) == Len(folder) > 0 /\ ~rsp.archived

\* ArchiveStats run by one task without interruption
ArchiveStatsSeq(st, rsp) ==
    LET name == rsp.Step.Name
        st1 == IF name \in DOMAIN st.w THEN st
               ELSE writeStepNameInit(CreateWriter(st, name), name, rsp.Step.Expectation)
    IN  writeStepEntry(st1, name, stepEntry(rsp))

\* ------------------------------------------------------------ the analyzer
\* gob.Decoder.Decode into a value of type `want`: type descriptions are
\* taken in on the way; at the end of the stream io.EOF; a value of another
\* type or of an undescribed type is an error and leaves the zero value.
RECURSIVE Decode(_, _, _, _)
Decode(stream, known, want, zero) ==
    IF stream = << >>
    THEN [eof |-> TRUE, val |-> zero, rest |-> << >>, known |-> known]
    ELSE LET m == Head(stream) IN
         IF m.def THEN Decode(Tail(stream), known \cup {m.type}, want, zero)
         ELSE [eof |-> FALSE,
               val |-> IF m.type = want /\ (m.type \in BasicTypes \/ m.type \in known)
                       THEN m.val ELSE zero,
               rest |-> Tail(stream), known |-> known]

ZeroStepEntry ==
    [Scenario |-> "", Timestamps |-> NoTimestamps,
     Timeout |-> FALSE, TimeoutRootCause |-> "",
     Error |-> FALSE, ErrorRootCause |-> "",
     AssertionFailed |-> FALSE, AssertionFailedRootCause |-> Nil,
     StatusCode |-> 0, RequestSize |-> 0, ResponseSize |-> 0]

\* the loop of parseStepFile: every Decode that is not io.EOF counts an entry
RECURSIVE DecodeEntries(_, _)
DecodeEntries(stream, known) ==
    LET d == Decode(stream, known, "StepEntry", ZeroStepEntry) IN
    IF d.eof THEN << >>
    ELSE <<d.val>> \o DecodeEntries(d.rest, d.known)

\* parseStepFile: the version, the step name, the Expectation, then the
\* entries up to the end of the stream
parseStepFile(stream) ==
    LET v == Decode(stream, {}, "int", 0)
        n == Decode(v.rest, v.known, "string", "")
        e == Decode(n.rest, n.known, "Expectation", [SuccessPercentageAtLeast |-> 0])
    IN  [fileFormatVersion |-> v.val, parsedStepName |-> n.val,
         parsedStepExpectation |-> e.val, entries |-> DecodeEntries(e.rest, e.known)]

\* ------------------------------------------------- one Response, one task
\* user.Step(name), with the default Expectation or ExpectSuccessPercentageAtLeast(p)
Step(name, p) == [Name |-> name, Expectation |-> [SuccessPercentageAtLeast |-> p]]

isValidPercentage(percentage) == percentage >= 0 /\ percentage <= 100

\* Step.ExpectSuccessPercentageAtLeast: an invalid percentage changes nothing
ExpectSuccessPercentageAtLeast(step, percentage) ==
    IF isValidPercentage(percentage)
    THEN [step EXCEPT !.Expectation.SuccessPercentageAtLeast = percentage]
    ELSE step

\* the percentages the scenarios of the model expect
Percentages == {0, 90}

\* Step.Request / Step.RequestRaw
StepRequest(raw) ==
    /\ request = << >> /\ ~panicked
    /\ request' = IF tuser.Disabled
                  THEN <<[Disabled |-> TRUE, Raw |-> FALSE, User |-> None, Step |-> None]>>
                  ELSE <<[Disabled |-> FALSE, Raw |-> raw, User |-> "u", Step |-> Step("a", 0)]>>
    /\ UNCHANGED <<now, setupVars, jars, tuser, response, transport, calls, panicked, dispatched, storeVars, closeVars, ghostVars, schedVars>>

\* SendWithTimeout / SendWithoutTimeout: sendRequest, then
\* req.User.executeRequestWithTracing(req), which reads user.Scenario
Send ==
    /\ request # << >> /\ response = << >> /\ ~panicked
    /\ IF request[1].User = None
       THEN /\ panicked' = TRUE
            /\ UNCHANGED <<response, transport, dispatched>>
       ELSE /\ \E tr \in Transports, code \in {200, 502}, body \in Bodies :
                 /\ response' = <<executeRequestWithTracing("s1", request[1].Step, tr, code, body, now)>>
                 /\ transport' = <<tr>>
            /\ dispatched' = dispatched + 1
            /\ UNCHANGED panicked
    /\ UNCHANGED <<now, setupVars, jars, tuser, request, calls, storeVars, closeVars, ghostVars, schedVars>>

\* one of the Assert* methods on the Response
AssertCall(a) ==
    /\ response # << >> /\ Len(calls) < MaxCalls
    /\ response' = <<ApplyAssertion(response[1], a)>>
    /\ calls' = Append(calls, a)
    /\ UNCHANGED <<now, setupVars, jars, tuser, request, transport, panicked, dispatched, storeVars, closeVars, ghostVars, schedVars>>

\* Response.MarkAsFailed called by the scenario
MarkAsFailedCall(message) ==
    /\ response # << >> /\ Len(calls) < MaxCalls
    /\ response' = <<MarkAsFailed(response[1], message)>>
    /\ calls' = Append(calls, [kind |-> "MarkAsFailed", arg |-> message])
    /\ UNCHANGED <<now, setupVars, jars, tuser, request, transport, panicked, dispatched, storeVars, closeVars, ghostVars, schedVars>>

\* Response.ArchiveStats, no other task running
ArchiveStatsCall ==
    /\ response # << >> /\ Len(calls) < MaxCalls
    /\ histogramLock = Unlocked
    /\ calls' = Append(calls, [kind |-> "ArchiveStats", arg |-> None])
    /\ IF ShouldArchive(response[1])
       THEN LET st == ArchiveStatsSeq(Store(stepHistogramWriters, files), response[1]) IN
            /\ stepHistogramWriters' = st.w
            /\ files' = st.f
            /\ response' = <<[response[1] EXCEPT !.archived = TRUE]>>
       ELSE UNCHANGED <<stepHistogramWriters, files, response>>
    /\ UNCHANGED <<now, setupVars, jars, tuser, request, transport, panicked, dispatched, folder, histogramLock,
                   closeVars, ghostVars, schedVars>>

InitStore ==
    /\ stepHistogramWriters = NoWriters
    /\ files = NoWriters
    /\ histogramLock = Unlocked

\* ---------------------------------------------------------------- scheduler
RandomInterval(min, max) == [Min |-> min, Max |-> max]

RandomDurationMutant(min, max) == {min + r : r \in 0 .. (max - min + 1)}

\* the values RandomDuration(min, max) can return; none when it panics
RandomDuration(min, max) ==
    IF max < min THEN {}
    ELSE IF max = 0 THEN {0}
    ELSE IF max = min THEN {max}
    ELSE {min + r : r \in 0 .. (max - min - 1)}

LoadConfig(users, rampUp, plateau, rampDown, startDelay, loopDelay, clearJar) ==
    [LoopingUsers |-> users, RampUp |-> rampUp, Plateau |-> plateau, RampDown |-> rampDown,
     StartDelay |-> startDelay, LoopDelay |-> loopDelay, ClearCookieJarOnEveryLoop |-> clearJar]

\* A Runner of the model makes no request, or sends the request of one step
\* (the server answers with one of `codes`), asserts status code 200 and calls
\* ArchiveStats a number of times.
Runner(step, codes, percentages, archives) ==
    [step |-> step, codes |-> codes, percentages |-> percentages, archives |-> archives]
NoRequest == Runner("", {}, {}, 0)

Scenario(title, runner, config, ignored) ==
    [Title |-> title, Runner |-> runner, LoadConfig |-> config, Ignored |-> ignored,
     ExecutionCount |-> 0]

NoDelay == RandomInterval(0, 0)

\* The scenarios registered before Run, one registry per behaviour:
\*  - two users that think between their loops and ramp down one after the other;
\*  - two users of one scenario that archive every Response twice;
\*  - two scenarios of one user each, with a step each.
RampDownRun ==
    [t \in Titles |->
        IF t = "s1"
        THEN Scenario(t, NoRequest, LoadConfig(2, 1, 0, 3, NoDelay, RandomInterval(1, 1), TRUE), FALSE)
        ELSE Scenario(t, Runner("b", {200}, {0}, 1), LoadConfig(1, 0, 1, 0, NoDelay, NoDelay, TRUE), TRUE)]
SharedStepRun ==
    [t \in Titles |->
        IF t = "s1"
        THEN Scenario(t, Runner("a", {200, 502}, {0}, 2), LoadConfig(2, 0, 1, 0, NoDelay, NoDelay, TRUE), FALSE)
        ELSE Scenario(t, Runner("b", {200}, {0}, 1), LoadConfig(1, 0, 1, 0, NoDelay, NoDelay, TRUE), TRUE)]
TwoScenariosRun ==
    [t \in Titles |->
        IF t = "s1"
        THEN Scenario(t, Runner("a", {200}, {90}, 1), LoadConfig(1, 0, 1, 0, NoDelay, RandomInterval(1, 1), TRUE), FALSE)
        ELSE Scenario(t, Runner("b", {502}, {0}, 1), LoadConfig(1, 0, 1, 0, RandomInterval(0, 2), RandomInterval(1, 1), TRUE), FALSE)]
\* one user that keeps its cookie jar over its loops
KeepJarRun ==
    [t \in Titles |->
        IF t = "s1"
        THEN Scenario(t, Runner("a", {200}, {0, 90}, 1), LoadConfig(1, 0, 1, 0, NoDelay, NoDelay, FALSE), FALSE)
        ELSE Scenario(t, Runner("b", {200}, {0}, 1), LoadConfig(1, 0, 1, 0, NoDelay, NoDelay, TRUE), TRUE)]
\* two users of one loop each whose steps of one name expect differently
TwoExpectationsRun ==
    [t \in Titles |->
        IF t = "s1"
        THEN Scenario(t, Runner("a", {200}, {0, 90}, 1), LoadConfig(2, 0, 1, 0, NoDelay, RandomInterval(1, 1), TRUE), FALSE)
        ELSE Scenario(t, Runner("b", {200}, {0}, 1), LoadConfig(1, 0, 1, 0, NoDelay, NoDelay, TRUE), TRUE)]
Registrations == {RampDownRun, SharedStepRun, TwoScenariosRun, KeepJarRun, TwoExpectationsRun}

NoData == [test |-> << >>]
NoUser == [pc |-> "unborn", CurrentUser |-> 0, CurrentLoop |-> 0, Disabled |-> FALSE,
           Jar |-> << >>, cookies |-> {}, jarLoop |-> 0, Data |-> NoData,
           cutoff |-> 0, wake |-> 0, spawned |-> 0, spawns |-> 0, seen |-> << >>,
           runStart |-> 0, rsp |-> << >>, archCalls |-> 0]
NoTask == [pc |-> "none", wake |-> 0, start |-> 0, end |-> 0, next |-> 0]
NoTeardown == [pc |-> "idle", startKeys |-> {}, visited |-> {}]
Callers == {"main", "sig"}

Alive == exited = << >>
TitleOf(u) == u[1]

InitTeardown ==
    /\ scenariosWriter = [created |-> FALSE, closed |-> FALSE, stream |-> << >>]
    /\ closeLock = None /\ closed = FALSE
    /\ td = [c \in Callers |-> NoTeardown]
    /\ created = << >>
    /\ lockOrder = [n \in StepNames |-> << >>]
    /\ firstExpectation = [n \in StepNames |-> << >>]
    /\ archiveCalled = 0

\* main has not parsed a command line, the scenarios are registered
NoCli == [args |-> << >>, parsed |-> None, runFolder |-> << >>, reportFolder |-> << >>,
          ran |-> << >>, analyzed |-> << >>]
\* no send is in progress
HeaderNames == {"Load-Test", "Goverrun-Scenario-Step", "Goverrun-User-Loop"}
NoHeader == [k \in HeaderNames |-> << >>]
NoTrace ==
    [pc |-> "idle", Timestamps |-> NoTimestamps, outcome |-> "", hops |-> 0,
     wrote |-> FALSE, got |-> FALSE, open |-> FALSE, events |-> << >>, entry |-> << >>,
     AddScenarioStepHeader |-> FALSE, AddUserLoopHeader |-> FALSE, requestInterceptors |-> << >>,
     Header |-> NoHeader, invoked |-> << >>, dispatched |-> << >>]
InitSetupDone ==
    /\ cli = NoCli /\ addResult = << >> /\ duration = << >>
    /\ report = << >> /\ trace = NoTrace

InitSched ==
    /\ InitSetupDone
    /\ jars = 0
    /\ mainpc = "registered" /\ pending = {} /\ wg = 0
    /\ sc = [t \in Titles |-> NoTask]
    /\ us = [u \in Users |-> NoUser]
    /\ currentLoopingUsers = [t \in Titles |-> 0]
    /\ exited = << >>

\* ---- Run
\* Run up to the WaitGroup: the folder, the scenario index file and its writer
RunStart(outputFolder) ==
    /\ Alive /\ mainpc = "registered"
    /\ folder' = outputFolder
    /\ scenariosWriter' = [scenariosWriter EXCEPT !.created = Len(outputFolder) > 0]
    /\ pending' = Titles
    /\ mainpc' = "spawn"
    /\ UNCHANGED <<now, setupVars, jars, respVars, stepHistogramWriters, files, histogramLock, closeLock, closed, td,
                   ghostVars, scenarios, wg, sc, us, currentLoopingUsers, exited>>

WgAddMutant(n) == 0

\* wg.Add(1) before a user task is started
WgAdd(n) == n

\* one iteration of the range over scenarios: an ignored scenario is skipped,
\* another one gets its task, which resets ExecutionCount and sleeps StartDelay
RunSpawnScenario(t) ==
    /\ Alive /\ mainpc = "spawn" /\ t \in pending
    /\ pending' = pending \ {t}
    /\ IF scenarios[t].Ignored
       THEN UNCHANGED <<wg, sc, scenarios>>
       ELSE /\ wg' = wg + 1
            /\ scenarios' = [scenarios EXCEPT ![t].ExecutionCount = 0]
            /\ \E d \in RandomDuration(scenarios[t].LoadConfig.StartDelay.Min,
                                       scenarios[t].LoadConfig.StartDelay.Max) :
                 sc' = [sc EXCEPT ![t] = [NoTask EXCEPT !.pc = "startdelay", !.wake = now + d]]
    /\ UNCHANGED <<now, setupVars, jars, respVars, storeVars, closeVars, ghostVars, mainpc, us,
                   currentLoopingUsers, exited>>

\* wg.Wait() returns; the deferred calls run: the ticker stops, then the teardown
RunWait ==
    /\ Alive /\ mainpc = "spawn" /\ pending = {}
    /\ wg = 0
    /\ mainpc' = "teardown"
    /\ td' = [td EXCEPT !["main"].pc = "lock"]
    /\ UNCHANGED <<now, setupVars, jars, respVars, storeVars, scenariosWriter, closeLock, closed, ghostVars,
                   scenarios, pending, wg, sc, us, currentLoopingUsers, exited>>

RunReturn ==
    /\ Alive /\ mainpc = "teardown" /\ td["main"].pc = "done"
    /\ mainpc' = "returned"
    /\ UNCHANGED <<now, setupVars, jars, respVars, storeVars, closeVars, ghostVars,
                   scenarios, pending, wg, sc, us, currentLoopingUsers, exited>>

\* ---- scenario task
RampDownStepMutant(cfg) == cfg.RampDown

\* rampDownStep := int64(RampDown) / int64(LoopingUsers)
RampDownStep(cfg) == cfg.RampDown \div cfg.LoopingUsers

RampUpSleepMutant(cfg) == cfg.RampUp \div cfg.LoopingUsers

\* the sleep after every spawn: RampUp / (LoopingUsers-1), none for one user
RampUpSleep(cfg) == IF cfg.LoopingUsers > 1 THEN cfg.RampUp \div (cfg.LoopingUsers - 1) ELSE 0
EndOf(start, cfg) == start + cfg.RampUp + cfg.Plateau + cfg.RampDown
RampDownCutoff(end, cfg, currentUserCount) ==
    (end - cfg.RampDown) + currentUserCount * RampDownStep(cfg)

\* the start delay is over: end is computed
ScenarioBegin(t) ==
    /\ Alive /\ sc[t].pc = "startdelay" /\ now >= sc[t].wake
    /\ sc' = [sc EXCEPT ![t] = [pc |-> "spawning", wake |-> now, start |-> now,
                                end |-> EndOf(now, scenarios[t].LoadConfig), next |-> 1]]
    /\ UNCHANGED <<now, setupVars, jars, respVars, storeVars, closeVars, ghostVars, scenarios, mainpc, pending, wg,
                   us, currentLoopingUsers, exited>>

\* one iteration of the spawn loop: the user's cutoff, wg.Add(1), the user
\* task, then the ramp-up sleep
ScenarioSpawnUser(t) ==
    LET cfg == scenarios[t].LoadConfig
        i == sc[t].next
    IN  /\ Alive /\ sc[t].pc = "spawning" /\ now >= sc[t].wake
        /\ i <= cfg.LoopingUsers
        /\ wg' = wg + WgAdd(1)
        /\ us' = [us EXCEPT ![<<t, i>>] =
                     [NoUser EXCEPT !.pc = "new", !.CurrentUser = i, !.spawned = now,
                                    !.spawns = us[<<t, i>>].spawns + 1,
                                    !.cutoff = RampDownCutoff(sc[t].end, cfg, i)]]
        /\ sc' = [sc EXCEPT ![t].next = i + 1, ![t].wake = now + RampUpSleep(cfg)]
        /\ UNCHANGED <<now, setupVars, jars, respVars, storeVars, closeVars, ghostVars, scenarios, mainpc, pending,
                       currentLoopingUsers, exited>>

\* the spawn loop is over: the deferred wg.Done()
ScenarioDone(t) ==
    /\ Alive /\ sc[t].pc = "spawning" /\ now >= sc[t].wake
    /\ sc[t].next > scenarios[t].LoadConfig.LoopingUsers
    /\ sc' = [sc EXCEPT ![t].pc = "done"]
    /\ wg' = wg - 1
    /\ UNCHANGED <<now, setupVars, jars, respVars, storeVars, closeVars, ghostVars, scenarios, mainpc, pending,
                   us, currentLoopingUsers, exited>>

\* ---- user task
\* the task starts: the gauge, the User and its HTTP client
UserStart(u) ==
    /\ Alive /\ us[u].pc = "new"
    /\ currentLoopingUsers' = [currentLoopingUsers EXCEPT ![TitleOf(u)] = @ + 1]
    /\ us' = [us EXCEPT ![u].pc = "head"]
    /\ UNCHANGED <<now, setupVars, jars, respVars, storeVars, closeVars, ghostVars, scenarios, mainpc, pending, wg,
                   sc, exited>>

NeedsNewJarMutant(jar, cfg) == jar = << >>

\* user.HttpClient.Jar == nil || scenario.LoadConfig.ClearCookieJarOnEveryLoop
NeedsNewJar(jar, cfg) == jar = << >> \/ cfg.ClearCookieJarOnEveryLoop

IncLoopMutant(n) == n + 2

\* user.CurrentLoop++
IncLoop(n) == n + 1

\* the loop condition time.Now().Before(end): a new loop counts itself, gets
\* a new cookie jar when the user has none or the scenario clears it, and calls
\* the runner,
\* otherwise the task ends (deferred wg.Done())
UserLoop(u) ==
    /\ Alive /\ us[u].pc = "head" /\ now >= us[u].wake
    /\ IF now < sc[TitleOf(u)].end
       THEN /\ us[u].CurrentLoop < MaxLoops
            /\ IF NeedsNewJar(us[u].Jar, scenarios[TitleOf(u)].LoadConfig)
               THEN /\ jars' = jars + 1
                    /\ us' = [us EXCEPT ![u].pc = "runner", ![u].CurrentLoop = IncLoop(@),
                                        ![u].seen = Append(@, IncLoop(us[u].CurrentLoop)),
                                        ![u].Jar = <<jars + 1>>, ![u].cookies = {},
                                        ![u].jarLoop = IncLoop(us[u].CurrentLoop),
                                        ![u].runStart = now, ![u].wake = 0]
               ELSE /\ us' = [us EXCEPT ![u].pc = "runner", ![u].CurrentLoop = IncLoop(@),
                                        ![u].seen = Append(@, IncLoop(us[u].CurrentLoop)),
                                        ![u].runStart = now, ![u].wake = 0]
                    /\ UNCHANGED jars
            /\ UNCHANGED wg
       ELSE /\ us' = [us EXCEPT ![u].pc = "done", ![u].wake = 0]
            /\ wg' = wg - 1
            /\ UNCHANGED jars
    /\ UNCHANGED <<now, setupVars, respVars, storeVars, closeVars, ghostVars, scenarios, mainpc, pending,
                   sc, currentLoopingUsers, exited>>

OkTransport == [doErr |-> Nil, hasRsp |-> TRUE, bodyErr |-> Nil]

\* the cookie the server sets with its response: one per loop of the user
SetCookie(user) == {<<"loop", user.CurrentLoop>>}

\* the runner builds its step with an expected success percentage, sends the
\* request and asserts the status code
RunnerSend(u, code, p) ==
    /\ Alive /\ us[u].pc = "runner"
    /\ code \in scenarios[TitleOf(u)].Runner.codes
    /\ p \in scenarios[TitleOf(u)].Runner.percentages
    /\ us' = [us EXCEPT ![u].pc = "chain",
                        ![u].cookies = @ \cup SetCookie(us[u]),
                        ![u].rsp = <<ApplyAssertion(
                            executeRequestWithTracing(TitleOf(u),
                                ExpectSuccessPercentageAtLeast(Step(scenarios[TitleOf(u)].Runner.step, 0), p),
                                OkTransport,
                                                      code, << >>, now),
                            [kind |-> "AssertStatusCode", arg |-> 200])>>]
    /\ UNCHANGED <<now, setupVars, jars, respVars, storeVars, closeVars, ghostVars, scenarios, mainpc, pending, wg,
                   sc, currentLoopingUsers, exited>>

\* the runner calls an Expect* method on the step of a Response it has archived
ExpectAfterArchive(u, p) ==
    /\ Alive /\ us[u].pc = "chain"
    /\ us[u].rsp[1].archived
    /\ us[u].archCalls = scenarios[TitleOf(u)].Runner.archives
    /\ p \in scenarios[TitleOf(u)].Runner.percentages \cup {101}
    /\ us[u].rsp[1].Step.Expectation.SuccessPercentageAtLeast # p
    /\ us' = [us EXCEPT ![u].rsp[1].Step = ExpectSuccessPercentageAtLeast(@, p)]
    /\ UNCHANGED <<now, setupVars, jars, respVars, storeVars, closeVars, ghostVars, scenarios, mainpc, pending, wg,
                   sc, currentLoopingUsers, exited>>

HeaderExpectationMutant(rsp) == Step(rsp.Step.Name, 0).Expectation

\* the Expectation writeStepNameInit is called with: *response.Step.Expectation
HeaderExpectation(rsp) == rsp.Step.Expectation

HistogramLockFreeMutant == TRUE

HistogramLockFree == histogramLock = Unlocked

WriterLockFreeMutant(w) == TRUE

WriterLockFree(w) == w.lock = Unlocked

\* ArchiveStats is called on the Response: nothing to do without a folder or
\* when archived; else histogramLock is taken and the registry looked up: a
\* known step gives its writer at once and the lock is released
ArchiveBegin(u) ==
    LET rsp == us[u].rsp[1]
        name == rsp.Step.Name
    IN  /\ Alive /\ us[u].pc = "chain"
        /\ us[u].archCalls < scenarios[TitleOf(u)].Runner.archives
        /\ archiveCalled' = archiveCalled + (IF us[u].archCalls = 0 THEN 1 ELSE 0)
        /\ IF ~ShouldArchive(rsp)
           THEN /\ us' = [us EXCEPT ![u].archCalls = @ + 1]
                /\ UNCHANGED histogramLock
           ELSE /\ HistogramLockFree
                /\ IF name \in DOMAIN stepHistogramWriters
                   THEN /\ us' = [us EXCEPT ![u].archCalls = @ + 1, ![u].pc = "entry"]
                        /\ histogramLock' = Unlocked
                   ELSE /\ us' = [us EXCEPT ![u].archCalls = @ + 1, ![u].pc = "create"]
                        /\ histogramLock' = u
        /\ UNCHANGED <<now, setupVars, jars, respVars, folder, stepHistogramWriters, files, closeVars, created,
                       lockOrder, firstExpectation, scenarios, mainpc, pending, wg, sc, currentLoopingUsers, exited>>

\* os.Create of the step file and the registration of the new writer
ArchiveCreate(u) ==
    LET name == us[u].rsp[1].Step.Name
        st == CreateWriter(Store(stepHistogramWriters, files), name)
    IN  /\ Alive /\ us[u].pc = "create"
        /\ stepHistogramWriters' = st.w
        /\ files' = st.f
        /\ created' = Append(created, name)
        /\ firstExpectation' = [firstExpectation EXCEPT ![name] = <<us[u].rsp[1].Step.Expectation>>]
        /\ us' = [us EXCEPT ![u].pc = "init"]
        /\ UNCHANGED <<now, setupVars, jars, respVars, folder, histogramLock, closeVars, lockOrder, archiveCalled,
                       scenarios, mainpc, pending, wg, sc, currentLoopingUsers, exited>>

\* writeStepNameInit under the writer's lock, then histogramLock.Unlock()
ArchiveInit(u) ==
    LET rsp == us[u].rsp[1]
        name == rsp.Step.Name
        st == writeStepNameInit(Store(stepHistogramWriters, files), name, HeaderExpectation(rsp))
    IN  /\ Alive /\ us[u].pc = "init"
        /\ WriterLockFree(stepHistogramWriters[name])
        /\ stepHistogramWriters' = st.w
        /\ files' = st.f
        /\ histogramLock' = Unlocked
        /\ us' = [us EXCEPT ![u].pc = "entry"]
        /\ UNCHANGED <<now, setupVars, jars, respVars, folder, closeVars, ghostVars,
                       scenarios, mainpc, pending, wg, sc, currentLoopingUsers, exited>>

\* writeStepEntry takes the writer's lock
EntryLock(u) ==
    LET rsp == us[u].rsp[1]
        name == rsp.Step.Name
    IN  /\ Alive /\ us[u].pc = "entry"
        /\ WriterLockFree(stepHistogramWriters[name])
        /\ stepHistogramWriters' = [stepHistogramWriters EXCEPT ![name].lock = u]
        /\ lockOrder' = [lockOrder EXCEPT ![name] = Append(@, [by |-> u, entry |-> stepEntry(rsp)])]
        /\ us' = [us EXCEPT ![u].pc = "encode"]
        /\ UNCHANGED <<now, setupVars, jars, respVars, folder, files, histogramLock, closeVars, created, archiveCalled,
                       firstExpectation,
                       scenarios, mainpc, pending, wg, sc, currentLoopingUsers, exited>>

UnlockMutant(w) == w

\* the deferred sgw.lock.Unlock() of writeStepEntry
Unlock(w) == [w EXCEPT !.lock = Unlocked]

\* writeStepEntry encodes and unlocks; ArchiveStats marks the Response archived
EntryEncode(u) ==
    LET rsp == us[u].rsp[1]
        name == rsp.Step.Name
        st == writeStepEntry(Store(stepHistogramWriters, files), name, stepEntry(rsp))
    IN  /\ Alive /\ us[u].pc = "encode"
        /\ stepHistogramWriters' = [st.w EXCEPT ![name] = Unlock(@)]
        /\ files' = st.f
        /\ us' = [us EXCEPT ![u].pc = "chain", ![u].rsp = <<[rsp EXCEPT !.archived = TRUE]>>]
        /\ UNCHANGED <<now, setupVars, jars, respVars, folder, histogramLock, closeVars, ghostVars,
                       scenarios, mainpc, pending, wg, sc, currentLoopingUsers, exited>>

AddUint64Mutant(n, delta) == IF n = 0 THEN n + delta ELSE n

\* atomic.AddUint64: one indivisible read-modify-write of the counter (the
\* counts of a bounded run are far from 2^64)
AddUint64(n, delta) == n + delta

\* checkUserData, the last statement of every runner: the first loop stores
\* the user's number in user.Data, a later loop reads it back and panics when it
\* is not the user's number
checkUserData(user) ==
    IF user.CurrentLoop = 1 THEN [user.Data EXCEPT !.test = <<user.CurrentUser>>]
    ELSE user.Data
UserDataOk(user) ==
    user.CurrentLoop = 1 \/ user.Data.test = <<user.CurrentUser>>

RampDownExitMutant(user) == [user EXCEPT !.pc = "head", !.Disabled = TRUE]

\* past the cutoff: user.Disabled = true, then break, which ends the task
RampDownExit(user) == [user EXCEPT !.pc = "done", !.Disabled = TRUE]

\* the runner returns: ExecutionCount, then the ramp-down cutoff: past it the
\* user leaves the gauge, is disabled and its task ends; else it thinks
RunnerReturn(u) ==
    LET t == TitleOf(u)
        cfg == scenarios[t].LoadConfig
    IN  /\ Alive
        /\ \/ us[u].pc = "runner" /\ scenarios[t].Runner.step = ""
           \/ us[u].pc = "chain" /\ us[u].archCalls = scenarios[t].Runner.archives
        /\ scenarios' = [scenarios EXCEPT ![t].ExecutionCount = AddUint64(@, 1)]
        /\ IF now > us[u].cutoff
           THEN /\ currentLoopingUsers' = [currentLoopingUsers EXCEPT ![t] = @ - 1]
                /\ us' = [us EXCEPT ![u] = RampDownExit([@ EXCEPT !.Data = checkUserData(us[u]),
                                                                   !.rsp = << >>, !.archCalls = 0])]
                /\ wg' = wg - 1
           ELSE /\ \E d \in RandomDuration(cfg.LoopDelay.Min, cfg.LoopDelay.Max) :
                     us' = [us EXCEPT ![u].pc = "head", ![u].wake = now + d,
                                      ![u].Data = checkUserData(us[u]),
                                      ![u].rsp = << >>, ![u].archCalls = 0]
                /\ UNCHANGED <<wg, currentLoopingUsers>>
        /\ UNCHANGED <<now, setupVars, jars, respVars, storeVars, closeVars, ghostVars, mainpc, pending, sc, exited>>

\* Time passes while the tasks sleep or have a request in flight (a runner
\* may take any time), until one tick past the end of the last scenario.  A
\* task that is due runs first, and the steps a user takes between the
\* response and the return of the runner are taken as of one instant.
ClockMatters ==
    \E t \in Titles : \/ sc[t].pc = "startdelay"
                      \/ sc[t].pc \in {"spawning", "done"} /\ now <= sc[t].end
ScenarioDue(t) == sc[t].pc \in {"startdelay", "spawning"} /\ now >= sc[t].wake
UserDue(u) ==
    \/ us[u].pc \notin {"unborn", "head", "runner", "done"}
    \/ /\ us[u].pc = "head" /\ now >= us[u].wake
       /\ (now < sc[TitleOf(u)].end => us[u].CurrentLoop < MaxLoops)
Tick ==
    /\ Alive /\ now < MaxTime
    /\ mainpc = "spawn" /\ pending = {} /\ ClockMatters
    /\ \A t \in Titles : ~ScenarioDue(t)
    /\ \A u \in Users : ~UserDue(u)
    /\ now' = now + 1
    /\ UNCHANGED <<setupVars, jars, respVars, storeVars, closeVars, ghostVars, schedVars>>

\* ---- writeSummaryAndCloseFiles, called by Run (deferred) and by the
\* interrupt handler
writeScenarios(w, t) ==
    [w EXCEPT !.stream = @ \o
        GobEncode({}, "int", FormatVersion)
        \o GobEncode({}, "Environment", [Hostname |-> "host", Start |-> t])
        \o GobEncode({"Environment"}, "map", scenarios)]

\* closeLock.Lock() and the test of `closed`: a second call finds nothing to do
TeardownLock(c) ==
    /\ Alive /\ td[c].pc = "lock"
    /\ closeLock = None
    /\ IF closed
       THEN /\ td' = [td EXCEPT ![c].pc = "done"]
            /\ UNCHANGED closeLock
       ELSE /\ td' = [td EXCEPT ![c].pc = "scenarios"]
            /\ closeLock' = c
    /\ UNCHANGED <<now, setupVars, jars, respVars, storeVars, scenariosWriter, closed, ghostVars, schedVars>>

\* the scenario index is written and closed, when there is one; the range
\* over the step writers starts
TeardownScenarios(c) ==
    /\ Alive /\ td[c].pc = "scenarios"
    /\ scenariosWriter' = IF scenariosWriter.created
                          THEN [writeScenarios(scenariosWriter, now) EXCEPT !.closed = TRUE]
                          ELSE scenariosWriter
    /\ td' = [td EXCEPT ![c].pc = "range", ![c].startKeys = DOMAIN stepHistogramWriters]
    /\ UNCHANGED <<now, setupVars, jars, respVars, storeVars, closeLock, closed, ghostVars, schedVars>>

\* one iteration of the range (there is none when the range found the map
\* empty): the writer is locked (until the teardown returns) and its gzip
\* stream and file are closed
TeardownCloseStep(c, name) ==
    /\ Alive /\ td[c].pc = "range"
    /\ td[c].startKeys # {}
    /\ name \in DOMAIN stepHistogramWriters /\ name \notin td[c].visited
    /\ WriterLockFree(stepHistogramWriters[name])
    /\ stepHistogramWriters' = [stepHistogramWriters EXCEPT ![name].lock = CallOf(c), ![name].closed = TRUE]
    /\ td' = [td EXCEPT ![c].visited = @ \cup {name}]
    /\ UNCHANGED <<now, setupVars, jars, respVars, folder, files, histogramLock, scenariosWriter, closeLock, closed,
                   ghostVars, schedVars>>

\* the range is over (an entry added to the map during the range may have
\* been skipped): closed is set, the deferred unlocks run
TeardownEnd(c) ==
    /\ Alive /\ td[c].pc = "range"
    /\ td[c].startKeys \subseteq td[c].visited
    /\ closed' = TRUE
    /\ stepHistogramWriters' =
          [n \in DOMAIN stepHistogramWriters |->
              IF n \in td[c].visited /\ stepHistogramWriters[n].lock = CallOf(c)
              THEN [stepHistogramWriters[n] EXCEPT !.lock = Unlocked]
              ELSE stepHistogramWriters[n]]
    /\ closeLock' = None
    /\ td' = [td EXCEPT ![c].pc = "done"]
    /\ UNCHANGED <<now, setupVars, jars, respVars, folder, files, histogramLock, scenariosWriter,
                   ghostVars, schedVars>>

\* ---- the interrupt handler started by init()
\* os.Interrupt arrives during the run (after Run has set up the folder and
\* the scenario index): the handler calls writeSummaryAndCloseFiles
Interrupt ==
    /\ Alive /\ td["sig"].pc = "idle"
    /\ mainpc # "registered"
    /\ td' = [td EXCEPT !["sig"].pc = "lock"]
    /\ UNCHANGED <<now, setupVars, jars, respVars, storeVars, scenariosWriter, closeLock, closed, ghostVars, schedVars>>

\* the handler's os.Exit(0)
SigExit ==
    /\ Alive /\ td["sig"].pc = "done"
    /\ exited' = <<0>>
    /\ UNCHANGED <<now, setupVars, jars, respVars, storeVars, closeVars, ghostVars,
                   scenarios, mainpc, pending, wg, sc, us, currentLoopingUsers>>

\* The range reads stepHistogramWriters without histogramLock.  When a user
\* adds a writer while the range still has entries to visit, the Go runtime
\* may end the process with "concurrent map iteration and map write" (exit
\* status 2); otherwise the range goes on and may or may not visit the new
\* entry.  A range that found the map empty has ended at once.
TeardownRace(c) ==
    /\ Alive /\ td[c].pc = "range"
    /\ td[c].startKeys # {}
    /\ td[c].startKeys \ td[c].visited # {}
    /\ DOMAIN stepHistogramWriters # td[c].startKeys
    /\ exited' = <<2>>
    /\ UNCHANGED <<now, setupVars, jars, respVars, storeVars, closeVars, ghostVars,
                   scenarios, mainpc, pending, wg, sc, us, currentLoopingUsers>>

InitRun ==
    /\ now = 1
    /\ tuser = [Disabled |-> FALSE]
    /\ request = << >> /\ response = << >> /\ transport = << >> /\ calls = << >>
    /\ panicked = FALSE /\ dispatched = 0
    /\ folder = << >>
    /\ InitStore /\ InitTeardown /\ InitSched
    /\ scenarios \in Registrations

Init == InitRun

UserNext(u) ==
    \/ UserStart(u)
    \/ UserLoop(u)
    \/ \E code \in {200, 502}, p \in Percentages : RunnerSend(u, code, p)
    \/ \E p \in Percentages \cup {101} : ExpectAfterArchive(u, p)
    \/ ArchiveBegin(u)
    \/ ArchiveCreate(u)
    \/ ArchiveInit(u)
    \/ EntryLock(u)
    \/ EntryEncode(u)
    \/ RunnerReturn(u)

Next ==
    \/ \E outputFolder \in {<< >>, <<"o", "u", "t">>} : RunStart(outputFolder)
    \/ \E t \in Titles : RunSpawnScenario(t) \/ ScenarioBegin(t) \/ ScenarioSpawnUser(t) \/ ScenarioDone(t)
    \/ RunWait
    \/ RunReturn
    \/ \E u \in Users : UserNext(u)
    \/ TeardownLock("main")
    \/ TeardownScenarios("main")
    \/ \E name \in StepNames : TeardownCloseStep("main", name)
    \/ TeardownEnd("main")
    \/ Tick

Spec == Init /\ [][Next]_vars

\* ------------------------------------------------ runs of any load shape
\* one scenario whose users make no request, with any number of users and any
\* ramp-up, plateau and ramp-down of the bounded sets
MaxRamp == 3
MaxPlateau == 1
RampRuns ==
    {[t \in Titles |->
        IF t = "s1"
        THEN Scenario(t, NoRequest,
                      LoadConfig(n, rampUp, plateau, rampDown, startDelay, RandomInterval(1, 1), FALSE),
                      FALSE)
        ELSE Scenario(t, NoRequest, LoadConfig(1, 0, 0, 0, NoDelay, NoDelay, FALSE), TRUE)] :
     n \in UserIdx, rampUp \in 0 .. MaxRamp, plateau \in {0, MaxPlateau}, rampDown \in 0 .. MaxRamp,
     startDelay \in {RandomInterval(1, 1)}}

InitRamp ==
    /\ now = 1
    /\ tuser = [Disabled |-> FALSE]
    /\ request = << >> /\ response = << >> /\ transport = << >> /\ calls = << >>
    /\ panicked = FALSE /\ dispatched = 0
    /\ folder = << >>
    /\ InitStore /\ InitTeardown /\ InitSched
    /\ scenarios \in RampRuns

NextRamp ==
    \/ RunStart(<< >>)
    \/ \E t \in Titles : RunSpawnScenario(t) \/ ScenarioBegin(t) \/ ScenarioSpawnUser(t) \/ ScenarioDone(t)
    \/ \E u \in Users : UserStart(u) \/ UserLoop(u) \/ RunnerReturn(u)
    \/ Tick
    \/ RunWait
    \/ TeardownLock("main")
    \/ TeardownScenarios("main")
    \/ TeardownEnd("main")
    \/ RunReturn

SpecRamp == InitRamp /\ [][NextRamp]_vars

\* ------------------------------------------- the program up to Run: main
\* parses the command line, registers scenarios, and runs or reports
MaxDuration == 7
DefaultReportPath == "d"
Paths == {"x"}
CommandLines ==
    {<< >>, <<"run">>, <<"report">>, <<"help">>}
       \cup {<<cmd, "-path", path>> : cmd \in {"run", "report"}, path \in Paths}

\* FlagSet.Parse for the flag -path: the flag's value, or the default
ParsePath(flags, default) ==
    IF Len(flags) >= 2 /\ flags[1] = "-path" THEN flags[2] ELSE default

\* CommandlineDefaults: both flag sets get the default path; the one named by
\* os.Args[1] is parsed; without a known subcommand the program exits
CommandlineDefaults(reportPath, args) ==
    /\ Alive /\ mainpc = "start"
    /\ IF Len(args) >= 1 /\ args[1] \in {"run", "report"}
       THEN /\ cli' = [cli EXCEPT
                         !.args = args,
                         !.parsed = args[1],
                         !.runFolder = <<IF args[1] = "run" THEN ParsePath(Tail(args), reportPath)
                                         ELSE reportPath>>,
                         !.reportFolder = <<IF args[1] = "report" THEN ParsePath(Tail(args), reportPath)
                                            ELSE reportPath>>]
            /\ mainpc' = "setup"
            /\ UNCHANGED exited
       ELSE /\ cli' = [cli EXCEPT !.args = args]
            /\ exited' = <<1>>
            /\ UNCHANGED mainpc
    /\ UNCHANGED <<now, addResult, duration, report, trace, jars, respVars, storeVars, closeVars, ghostVars,
                   scenarios, pending, wg, sc, us, currentLoopingUsers>>

AddScenarioErrorMutant(registry, scenario) ==
    IF scenario.LoadConfig.LoopingUsers <= 0 THEN <<"panic", "zero or negative LoopingUsers">>
    ELSE IF scenario.LoadConfig.RampUp < 0 THEN <<"panic", "negative RampUp">>
    ELSE IF scenario.LoadConfig.RampDown < 0 THEN <<"panic", "negative RampDown">>
    ELSE IF scenario.LoadConfig.Plateau < 0 THEN <<"panic", "negative Plateau">>
    ELSE Nil

\* the first check of AddScenario that fails, as the panic message or the
\* returned error; Nil when the scenario is registered
AddScenarioError(registry, scenario) ==
    IF scenario.LoadConfig.LoopingUsers <= 0 THEN <<"panic", "zero or negative LoopingUsers">>
    ELSE IF scenario.LoadConfig.RampUp < 0 THEN <<"panic", "negative RampUp">>
    ELSE IF scenario.LoadConfig.RampDown < 0 THEN <<"panic", "negative RampDown">>
    ELSE IF scenario.LoadConfig.Plateau < 0 THEN <<"panic", "negative Plateau">>
    ELSE IF scenario.Title \in DOMAIN registry THEN <<"error", "scenario already exists">>
    ELSE Nil

\* scenarios[scenario.Title] = scenario
Register(registry, scenario) ==
    [t \in DOMAIN registry \cup {scenario.Title} |->
        IF t = scenario.Title THEN scenario ELSE registry[t]]

\* AddScenario: a panic ends the program, an error is returned to the caller
AddScenario(scenario) ==
    LET err == AddScenarioError(scenarios, scenario)
    IN  /\ Alive /\ mainpc = "setup"
        /\ addResult' = <<[scenario |-> scenario, before |-> scenarios, err |-> err]>>
        /\ IF err = Nil
           THEN scenarios' = Register(scenarios, scenario) /\ UNCHANGED exited
           ELSE /\ UNCHANGED scenarios
                /\ IF err[1] = "panic" THEN exited' = <<2>> ELSE UNCHANGED exited
        /\ UNCHANGED <<now, cli, duration, report, trace, jars, respVars, storeVars, closeVars, ghostVars,
                       mainpc, pending, wg, sc, us, currentLoopingUsers>>

\* RunFromCommandlineArgs: the path Run is called with and the path of the
\* analyzer, both read from the run subcommand's flag
ReportPath(c) ==
    IF c.parsed = "run" THEN c.runFolder[1]
    ELSE IF c.parsed = "report" THEN c.runFolder[1]
    ELSE ""

\* RunFromCommandlineArgs, with Run and GenerateResultsReport as the calls they
\* are: after a run, or at once for a report, the analyzer reads reportPath,
\* and an unmet expectation ends the program with status 3
RunFromCommandlineArgs(unmetExpectation) ==
    /\ Alive /\ mainpc = "setup"
    /\ cli' = [cli EXCEPT !.ran = IF cli.parsed = "run" THEN <<ReportPath(cli)>> ELSE << >>,
                          !.analyzed = <<ReportPath(cli)>>]
    /\ mainpc' = "reported"
    /\ exited' = IF unmetExpectation THEN <<3>> ELSE << >>
    /\ UNCHANGED <<now, addResult, duration, report, trace, jars, respVars, storeVars, closeVars, ghostVars,
                   scenarios, pending, wg, sc, us, currentLoopingUsers>>

\* the scenarios a program may try to register
Candidates ==
    {Scenario(t, NoRequest, LoadConfig(n, rampUp, plateau, rampDown, startDelay, loopDelay, FALSE), FALSE) :
        t \in Titles, n \in {0, 1}, rampUp \in {-1, 1}, plateau \in {-1, 0}, rampDown \in {-1, 1},
        startDelay \in {NoDelay, RandomInterval(2, 1)}, loopDelay \in {NoDelay, RandomInterval(2, 1)}}

InitSetup ==
    /\ now = 1
    /\ tuser = [Disabled |-> FALSE]
    /\ request = << >> /\ response = << >> /\ transport = << >> /\ calls = << >>
    /\ panicked = FALSE /\ dispatched = 0
    /\ folder = << >>
    /\ InitStore /\ InitTeardown
    /\ InitSetupDone
    /\ jars = 0
    /\ scenarios = << >>
    /\ mainpc = "start" /\ pending = {} /\ wg = 0
    /\ sc = [t \in Titles |-> NoTask]
    /\ us = [u \in Users |-> NoUser]
    /\ currentLoopingUsers = [t \in Titles |-> 0]
    /\ exited = << >>

NextSetup ==
    \/ \E args \in CommandLines : CommandlineDefaults(DefaultReportPath, args)
    \/ \E scenario \in Candidates : AddScenario(scenario)
    \/ \E unmetExpectation \in BOOLEAN : RunFromCommandlineArgs(unmetExpectation)

SpecSetup == InitSetup /\ [][NextSetup]_vars

\* ------------------------------------------------- calls of RandomDuration
\* one call: the value returned, or the panic
RandomDurationCall(min, max) ==
    /\ \/ /\ RandomDuration(min, max) = {}
          /\ duration' = <<[min |-> min, max |-> max, panic |-> TRUE, d |-> 0]>>
       \/ \E d \in RandomDuration(min, max) :
             duration' = <<[min |-> min, max |-> max, panic |-> FALSE, d |-> d]>>
    /\ UNCHANGED <<now, cli, addResult, report, trace, jars, respVars, storeVars, closeVars, ghostVars, schedVars>>

InitDuration == InitRun

NextDuration == \E min, max \in 0 .. MaxDuration : RandomDurationCall(min, max)

SpecDuration == InitDuration /\ [][NextDuration]_vars

\* ------------------------------------------------ durations of Timestamps
\* a time.Time is a number of the clock, 0 is the zero Time (IsZero)
MaxStamp == 2
Stamps == 0 .. MaxStamp
IsZero(t) == t = 0
AllTimestamps == [Start : Stamps, WroteRequest : Stamps, GotFirstResponseByte : Stamps, Done : Stamps]

Duration(d, completed) == [d |-> d, completed |-> completed]
ClampMutant(res) == res
Clamp(res) == IF res < 0 THEN 0 ELSE res

TotalDuration(stats) ==
    IF IsZero(stats.Done) THEN Duration(0, FALSE)
    ELSE Duration(Clamp(stats.Done - stats.Start), TRUE)

TimeToFirstByte(stats, afterRequestSent) ==
    LET start == IF afterRequestSent THEN stats.WroteRequest ELSE stats.Start IN
    IF IsZero(stats.GotFirstResponseByte) \/ IsZero(stats.WroteRequest) THEN Duration(0, FALSE)
    ELSE Duration(Clamp(stats.GotFirstResponseByte - start), TRUE)

\* ------------------------------------------------- calls into the analyzer
\* every action is one call on inputs of a bounded set; `report` keeps the
\* inputs and the results of the call
ReportIdle == report = << >>
ReportFrame == UNCHANGED <<now, cli, addResult, duration, trace, jars, respVars, storeVars, closeVars, ghostVars, schedVars>>

TimestampsCall(stats) ==
    /\ ReportIdle
    /\ report' = <<[op |-> "Timestamps", stats |-> stats,
                    TRRT |-> TotalDuration(stats),
                    TTFB |-> TimeToFirstByte(stats, FALSE),
                    TARS |-> TimeToFirstByte(stats, TRUE)]>>
    /\ ReportFrame

\* ---- thresholds of an Expectation
\* a pointer is a sequence of at most one record, nil is << >>; ActualValue
\* is << >> until the analyzer assigns it
MaxBytes == 2
RangeExpectation(min, max) == [Min |-> min, Max |-> max, Unmet |-> FALSE, ActualValue |-> Nil]
ExpectTotalBytesWithin(min, max) == <<RangeExpectation(min, max)>>

\* the result of a write... function: the thresholds as it leaves them, the
\* text, the returned flag
Outcome(t, result, unmetExpectation) == [t |-> t, result |-> result, unmetExpectation |-> unmetExpectation]

OutOfRange(bytes, within) == bytes < within.Min \/ bytes > within.Max
OutOfRangeMutant(bytes, within) == bytes > within.Max

writeTotalBytesExpectation(within, bytes) ==
    IF within = Nil THEN Outcome(within, "", FALSE)
    ELSE LET w == within[1] IN
         IF w.Max > 0
         THEN LET unmet == OutOfRange(bytes, w) IN
              Outcome(<<[w EXCEPT !.Unmet = unmet, !.ActualValue = <<bytes>>]>>,
                      IF unmet THEN "Unmet" ELSE "Met", unmet)
         ELSE Outcome(within, "", FALSE)

WriteTotalBytesCall(min, max, bytes) ==
    /\ ReportIdle
    /\ report' = <<[op |-> "TotalBytes", Min |-> min, Max |-> max, bytes |-> bytes,
                    out |-> writeTotalBytesExpectation(ExpectTotalBytesWithin(min, max), bytes)]>>
    /\ ReportFrame

\* ---- the statistics of one step log
NoCounts == [Requests |-> 0, Timeouts |-> 0, Failures |-> 0, Errors |-> 0]

\* m[k]++ on a map of counters
Increment(types, k) == types (+) SetToBag({k})

\* append(values, d) if the duration is completed
Track(values, dur) == IF dur.completed THEN Append(values, dur.d) ELSE values

NoStepStats ==
    [allCounts |-> NoCounts, requestBytes |-> 0, responseBytes |-> 0,
     valuesTTFB |-> << >>, valuesPARS |-> << >>, valuesTODU |-> << >>,
     statusCodes |-> EmptyBag, failureTypes |-> EmptyBag,
     errorTypes |-> EmptyBag, timeoutTypes |-> EmptyBag]

HasStatusCodeMutant(e) == TRUE
HasStatusCode(e) == e.StatusCode > 0

\* one round of the loop of parseStepFile on a decoded StepEntry
TrackEntry(s, e) ==
    [allCounts |->
        [Requests |-> s.allCounts.Requests + 1,
         Failures |-> s.allCounts.Failures + (IF e.AssertionFailed THEN 1 ELSE 0),
         Errors |-> s.allCounts.Errors + (IF e.Error THEN 1 ELSE 0),
         Timeouts |-> s.allCounts.Timeouts + (IF e.Timeout THEN 1 ELSE 0)],
     requestBytes |-> s.requestBytes + e.RequestSize,
     responseBytes |-> s.responseBytes + e.ResponseSize,
     valuesTTFB |-> Track(s.valuesTTFB, TimeToFirstByte(e.Timestamps, FALSE)),
     valuesPARS |-> Track(s.valuesPARS, TimeToFirstByte(e.Timestamps, TRUE)),
     valuesTODU |-> Track(s.valuesTODU, TotalDuration(e.Timestamps)),
     statusCodes |-> IF HasStatusCode(e) THEN Increment(s.statusCodes, e.StatusCode) ELSE s.statusCodes,
     failureTypes |-> IF e.AssertionFailed THEN Increment(s.failureTypes, e.AssertionFailedRootCause)
                      ELSE s.failureTypes,
     errorTypes |-> IF e.Error THEN Increment(s.errorTypes, e.ErrorRootCause) ELSE s.errorTypes,
     timeoutTypes |-> IF e.Timeout THEN Increment(s.timeoutTypes, e.TimeoutRootCause) ELSE s.timeoutTypes]

RECURSIVE TrackEntries(_, _)
TrackEntries(s, entries) ==
    IF entries = << >> THEN s
    ELSE TrackEntries(TrackEntry(s, Head(entries)), Tail(entries))

\* what parseStepFile returns besides the Expectation
stepFileStats(stream) == TrackEntries(NoStepStats, parseStepFile(stream).entries)

\* ---- the step logs the engine writes
\* the entries of the Responses of one send, as a scenario leaves them: as
\* sent, after a failing AssertStatusCode(200), or after MarkAsFailed
SentResponses ==
    {executeRequestWithTracing("s1", Step("a", 0), tr, code, <<"h">>, 1) :
        tr \in Transports, code \in {200, 502}}
ArchivedResponses ==
    SentResponses
    \cup {ApplyAssertion(rsp, [kind |-> "AssertStatusCode", arg |-> 200]) : rsp \in SentResponses}
    \cup {MarkAsFailed(rsp, <<"custom failure">>) : rsp \in SentResponses}
EngineEntries == {stepEntry(rsp) : rsp \in ArchivedResponses}

MaxEntries == 2
Logs == UNION {[1 .. n -> EngineEntries] : n \in 0 .. MaxEntries}

\* a step log: what writeStepNameInit and writeStepEntry put into the file
RECURSIVE WriteEntries(_, _, _)
WriteEntries(st, name, entries) ==
    IF entries = << >> THEN st
    ELSE WriteEntries(writeStepEntry(st, name, Head(entries)), name, Tail(entries))
StepLog(name, expectation, entries) ==
    WriteEntries(writeStepNameInit(CreateWriter(Store(NoWriters, NoWriters), name), name, expectation),
                 name, entries).f[1]

\* ---- percentages
\* float64(num) / float64(den) * 100, kept as the two counts: 0/0 is NaN,
\* which compares false with everything, n/0 is +Inf
Percentage(num, den) == [num |-> num, den |-> den]
Below(actual, p) == actual.den > 0 /\ 100 * actual.num < p * actual.den
Above(actual, p) ==
    \/ actual.den > 0 /\ 100 * actual.num > p * actual.den
    \/ actual.den = 0 /\ actual.num > 0

\* ---- status code thresholds
StatusCodeExpectation(isAtLeast, statusCode, percentage) ==
    [IsAtLeast |-> isAtLeast, StatusCode |-> statusCode, Percentage |-> percentage,
     Unmet |-> FALSE, ActualValue |-> Nil]
addStatusCodeCheck(thresholds, statusCode, percentage, isAtLeast) ==
    Append(thresholds, StatusCodeExpectation(isAtLeast, statusCode, percentage))

\* the thresholds a write... function leaves behind, the text per threshold
\* and the returned flag
Results(ts) == [i \in 1 .. Len(ts) |-> ts[i].result]
Thresholds(ts) == [i \in 1 .. Len(ts) |-> ts[i].t]
AnyUnmet(ts) == \E i \in 1 .. Len(ts) : ts[i].t.Unmet

PercentageUnmetMutant(isAtLeast, actual, p) == FALSE
PercentageUnmet(isAtLeast, actual, p) ==
    IF isAtLeast THEN Below(actual, p) ELSE Above(actual, p)

\* the body of the loops of writeStatusCodeExpectations and of
\* writeTypeMatchesPercentageExpectations on the two counts
writePercentageOfTotal(t, actualCount, totalCount) ==
    IF totalCount > 0
    THEN LET actualPercentage == Percentage(actualCount, totalCount)
             unmet == PercentageUnmet(t.IsAtLeast, actualPercentage, t.Percentage)
         IN  [t |-> [t EXCEPT !.Unmet = unmet, !.ActualValue = <<actualPercentage>>],
              result |-> IF unmet THEN "Unmet" ELSE "Met"]
    ELSE [t |-> t, result |-> ""]

writeStatusCodeExpectations(thresholds, codes) ==
    LET totalCount == BagCardinality(codes)
        ts == [i \in 1 .. Len(thresholds) |->
                  writePercentageOfTotal(thresholds[i], CopiesIn(thresholds[i].StatusCode, codes), totalCount)]
    IN  Outcome(Thresholds(ts), Results(ts), AnyUnmet(ts))

StatusCodePercentages == {0, 50, 100}
WriteStatusCodeCall(entries, isAtLeast, statusCode, percentage) ==
    /\ ReportIdle
    /\ LET stats == stepFileStats(StepLog("a", Nil, entries)) IN
       report' = <<[op |-> "StatusCode", entries |-> entries, stats |-> stats,
                    out |-> writeStatusCodeExpectations(
                                addStatusCodeCheck(<< >>, statusCode, percentage, isAtLeast),
                                stats.statusCodes)]>>
    /\ ReportFrame

\* ---- Counts
\* uint64 arithmetic wraps around; the model's unsigned integers are
\* UintBits wide, far above every count of the model
UintBits == 20
Uint(n) == n % (2 ^ UintBits)

SuccessesMutant(c) == c.Requests
Successes(c) == Uint(c.Requests - c.Failures - c.Errors - c.Timeouts)
SuccessPercentage(c) == Percentage(Successes(c), c.Requests)
FailurePercentage(c) == Percentage(c.Failures, c.Requests)
ErrorPercentage(c) == Percentage(c.Errors, c.Requests)
TimeoutPercentage(c) == Percentage(c.Timeouts, c.Requests)

AddCountsMutant(c, d) == d

AddCounts(c, d) ==
    [Requests |-> c.Requests + d.Requests, Timeouts |-> c.Timeouts + d.Timeouts,
     Failures |-> c.Failures + d.Failures, Errors |-> c.Errors + d.Errors]

\* ---- percentage, count and type thresholds
PercentageExpectation(percentage) == [Percentage |-> percentage, Unmet |-> FALSE, ActualValue |-> Nil]
CountExpectation(count) == [Count |-> count, Unmet |-> FALSE, ActualValue |-> Nil]
TypeMatchesThreshold(isAtLeast, re, percentage) ==
    [IsAtLeast |-> isAtLeast, RegExp |-> re, Percentage |-> percentage, Unmet |-> FALSE, ActualValue |-> Nil]

writePercentageExpectation(target, value, smallerIsBetter) ==
    IF target = Nil THEN Outcome(target, "", FALSE)
    ELSE LET unmet == \/ smallerIsBetter /\ Above(value, target[1].Percentage)
                      \/ ~smallerIsBetter /\ Below(value, target[1].Percentage)
         IN  Outcome(<<[target[1] EXCEPT !.Unmet = unmet, !.ActualValue = <<value>>]>>,
                     IF unmet THEN "Unmet" ELSE "Met", unmet)

writeCountExpectation(target, value, smallerIsBetter) ==
    IF target = Nil THEN Outcome(target, "", FALSE)
    ELSE LET unmet == \/ smallerIsBetter /\ value > target[1].Count
                      \/ ~smallerIsBetter /\ value < target[1].Count
         IN  Outcome(<<[target[1] EXCEPT !.Unmet = unmet, !.ActualValue = <<value>>]>>,
                     IF unmet THEN "Unmet" ELSE "Met", unmet)

\* the regular expressions of the type thresholds: ".*" matches every root
\* cause, "a^" none
TypeRegExps == {".*", "a^"}
MatchString(re, k) == re = ".*"

RECURSIVE MatchingCount(_, _)
MatchingCount(re, types) ==
    IF DOMAIN types = {} THEN 0
    ELSE LET k == CHOOSE x \in DOMAIN types : TRUE
             rest == [x \in DOMAIN types \ {k} |-> types[x]]
         IN  (IF MatchString(re, k) THEN types[k] ELSE 0) + MatchingCount(re, rest)

writeTypeMatchesPercentageExpectations(thresholds, types) ==
    LET totalCount == BagCardinality(types)
        ts == [i \in 1 .. Len(thresholds) |->
                  writePercentageOfTotal(thresholds[i], MatchingCount(thresholds[i].RegExp, types), totalCount)]
    IN  Outcome(Thresholds(ts), Results(ts), AnyUnmet(ts))

\* ---- percentile thresholds
PercentileExpectation(percentile, d) ==
    [Percentile |-> percentile, Duration |-> d, Unmet |-> FALSE, ActualValue |-> Nil]
ExpectPercentileLimit(limits, percentile, d) ==
    IF isValidPercentage(percentile) THEN Append(limits, PercentileExpectation(percentile, d))
    ELSE limits

\* sort.Float64s on a copy
RECURSIVE Sorted(_)
Sorted(values) ==
    IF values = << >> THEN << >>
    ELSE LET least == CHOOSE i \in 1 .. Len(values) : \A j \in 1 .. Len(values) : values[i] <= values[j]
         IN  <<values[least]>> \o Sorted([k \in 1 .. Len(values) - 1 |->
                                             IF k < least THEN values[k] ELSE values[k + 1]])

\* stats.Percentile(values, percent) for 0 < percent <= 100 on at least
\* 100/percent values, cut to a time.Duration: the value at the index
\* percent/100 * len of the sorted values if the index is whole, else the
\* mean of that value and the next
Percentile(values, percent) ==
    LET c == Sorted(values)
        scaled == percent * Len(values)
        i == scaled \div 100
    IN  IF Len(values) = 1 THEN c[1]
        ELSE IF scaled % 100 = 0 THEN c[i]
        ELSE (c[i] + c[i + 1]) \div 2

\* int(math.Ceil(100 / percentile))
ValuesNeeded(percentile) == (100 + percentile - 1) \div percentile

NotEnoughValues == <<"Not enough values for percentile calculation">>

\* the loop of writePercentileDurationExpectations from threshold i on: done
\* are the thresholds as the rounds before left them, lines the text so far
RECURSIVE PercentileLoopMutant(_, _, _, _, _)
PercentileLoopMutant(pctlExpcts, values, i, done, lines) ==
    IF i > Len(pctlExpcts) THEN Outcome(done, lines, \E k \in 1 .. Len(done) : done[k].Unmet)
    ELSE LET pctlExpct == pctlExpcts[i] IN
         IF pctlExpct.Percentile = 0 \/ Len(values) < ValuesNeeded(pctlExpct.Percentile)
         THEN PercentileLoopMutant(pctlExpcts, values, i + 1, [done EXCEPT ![i].Unmet = TRUE], lines)
         ELSE LET actualDuration == Percentile(values, pctlExpct.Percentile)
                  unmet == actualDuration > pctlExpct.Duration
              IN  PercentileLoopMutant(pctlExpcts, values, i + 1,
                      [done EXCEPT ![i].Unmet = unmet, ![i].ActualValue = <<actualDuration>>],
                      Append(lines, IF unmet THEN "Unmet" ELSE "Met"))

RECURSIVE PercentileLoop(_, _, _, _, _)
PercentileLoop(pctlExpcts, values, i, done, lines) ==
    LET unmetExpectation == \E k \in 1 .. Len(done) : done[k].Unmet IN
    IF i > Len(pctlExpcts) THEN Outcome(done, lines, unmetExpectation)
    ELSE LET pctlExpct == pctlExpcts[i] IN
         IF pctlExpct.Percentile = 0 THEN Outcome(done, << >>, unmetExpectation)
         ELSE IF Len(values) < ValuesNeeded(pctlExpct.Percentile)
         THEN Outcome(done, NotEnoughValues, unmetExpectation)
         ELSE LET actualDuration == Percentile(values, pctlExpct.Percentile)
                  unmet == actualDuration > pctlExpct.Duration
              IN  PercentileLoop(pctlExpcts, values, i + 1,
                      [done EXCEPT ![i].Unmet = unmet, ![i].ActualValue = <<actualDuration>>],
                      Append(lines, IF unmet THEN "Unmet" ELSE "Met"))

writePercentileDurationExpectations(pctlExpcts, values) ==
    PercentileLoop(pctlExpcts, values, 1, pctlExpcts, << >>)

\* the logs of successful sends that took 0 .. MaxStamp - 1 ticks
TimedEntries ==
    LET e == stepEntry(executeRequestWithTracing("s1", Step("a", 0), OkTransport, 200, <<"h">>, 1)) IN
    {[e EXCEPT !.Timestamps = [NoTimestamps EXCEPT !.Start = p[1], !.Done = p[2]]] :
        p \in {q \in (1 .. MaxStamp) \X (1 .. MaxStamp) : q[1] <= q[2]}}
TimedLogs == UNION {[1 .. n -> TimedEntries] : n \in 0 .. MaxEntries}

Percentiles == {0, 40, 50, 100}
Limits == {0, 1}
PercentileLimits ==
    {<< >>}
    \cup {ExpectPercentileLimit(<< >>, p, d) : p \in Percentiles, d \in Limits}
    \cup {ExpectPercentileLimit(ExpectPercentileLimit(<< >>, p, d), q, e) :
             p \in Percentiles, q \in Percentiles, d \in Limits, e \in Limits}

WritePercentileCall(entries, pctlExpcts) ==
    /\ ReportIdle
    /\ LET stats == stepFileStats(StepLog("a", Nil, entries)) IN
       report' = <<[op |-> "Percentile", entries |-> entries, stats |-> stats, limits |-> pctlExpcts,
                    out |-> writePercentileDurationExpectations(pctlExpcts, stats.valuesTODU)]>>
    /\ ReportFrame

\* ---- the Expectation of a step and its analysis
\* the Expectation User.Step gives a new step
DefaultExpectation ==
    [SuccessPercentageAtLeast |-> <<PercentageExpectation(0)>>,
     FailurePercentageAtMost |-> <<PercentageExpectation(100)>>,
     ErrorPercentageAtMost |-> <<PercentageExpectation(100)>>,
     TimeoutPercentageAtMost |-> <<PercentageExpectation(100)>>,
     SuccessCountAtLeast |-> Nil, FailureCountAtMost |-> Nil,
     ErrorCountAtMost |-> Nil, TimeoutCountAtMost |-> Nil,
     TotalRequestResponseTimePercentileLimits |-> << >>,
     TimeToFirstBytePercentileLimits |-> << >>,
     TimeAfterRequestSentPercentileLimits |-> << >>,
     TotalRequestBytesWithin |-> Nil, TotalResponseBytesWithin |-> Nil,
     StatusCodeThresholds |-> << >>,
     FailureTypeMatchesThresholds |-> << >>,
     ErrorTypeMatchesThresholds |-> << >>,
     TimeoutTypeMatchesThresholds |-> << >>]

\* the fields of an Expectation that hold one threshold, and those that hold a list
PointerFields ==
    {"SuccessPercentageAtLeast", "FailurePercentageAtMost", "ErrorPercentageAtMost",
     "TimeoutPercentageAtMost", "SuccessCountAtLeast", "FailureCountAtMost", "ErrorCountAtMost",
     "TimeoutCountAtMost", "TotalRequestBytesWithin", "TotalResponseBytesWithin"}
ListFields ==
    {"TotalRequestResponseTimePercentileLimits", "TimeToFirstBytePercentileLimits",
     "TimeAfterRequestSentPercentileLimits", "StatusCodeThresholds",
     "FailureTypeMatchesThresholds", "ErrorTypeMatchesThresholds", "TimeoutTypeMatchesThresholds"}

\* the zero Expectation: no threshold
ZeroExpectation == [field \in PointerFields \cup ListFields |-> Nil]

Stats(counts, ttfb, tars, trrt, statusCodes, failureTypes, errorTypes, timeoutTypes, requestBytes, responseBytes) ==
    [Counts |-> counts, TTFB |-> ttfb, TARS |-> tars, TRRT |-> trrt,
     StatusCodes |-> statusCodes, FailureTypes |-> failureTypes,
     ErrorTypes |-> errorTypes, TimeoutTypes |-> timeoutTypes,
     RequestBytes |-> requestBytes, ResponseBytes |-> responseBytes,
     Expectation |-> ZeroExpectation, HasUnmetExpectation |-> FALSE]
NoStats == Stats(NoCounts, << >>, << >>, << >>, EmptyBag, EmptyBag, EmptyBag, EmptyBag, 0, 0)

\* the calls of analyzeExpectation, by the field they are made on
WriteField(stats, field) ==
    LET e == stats.Expectation
        c == stats.Counts
    IN  CASE field = "SuccessPercentageAtLeast" -> writePercentageExpectation(e[field], SuccessPercentage(c), FALSE)
          [] field = "FailurePercentageAtMost" -> writePercentageExpectation(e[field], FailurePercentage(c), TRUE)
          [] field = "ErrorPercentageAtMost" -> writePercentageExpectation(e[field], ErrorPercentage(c), TRUE)
          [] field = "TimeoutPercentageAtMost" -> writePercentageExpectation(e[field], TimeoutPercentage(c), TRUE)
          [] field = "SuccessCountAtLeast" -> writeCountExpectation(e[field], Successes(c), FALSE)
          [] field = "FailureCountAtMost" -> writeCountExpectation(e[field], c.Failures, TRUE)
          [] field = "ErrorCountAtMost" -> writeCountExpectation(e[field], c.Errors, TRUE)
          [] field = "TimeoutCountAtMost" -> writeCountExpectation(e[field], c.Timeouts, TRUE)
          [] field = "TotalRequestResponseTimePercentileLimits" ->
                writePercentileDurationExpectations(e[field], stats.TRRT)
          [] field = "TimeToFirstBytePercentileLimits" ->
                writePercentileDurationExpectations(e[field], stats.TTFB)
          [] field = "TimeAfterRequestSentPercentileLimits" ->
                writePercentileDurationExpectations(e[field], stats.TARS)
          [] field = "TotalRequestBytesWithin" -> writeTotalBytesExpectation(e[field], stats.RequestBytes)
          [] field = "TotalResponseBytesWithin" -> writeTotalBytesExpectation(e[field], stats.ResponseBytes)
          [] field = "StatusCodeThresholds" -> writeStatusCodeExpectations(e[field], stats.StatusCodes)
          [] field = "FailureTypeMatchesThresholds" ->
                writeTypeMatchesPercentageExpectations(e[field], stats.FailureTypes)
          [] field = "ErrorTypeMatchesThresholds" ->
                writeTypeMatchesPercentageExpectations(e[field], stats.ErrorTypes)
          [] field = "TimeoutTypeMatchesThresholds" ->
                writeTypeMatchesPercentageExpectations(e[field], stats.TimeoutTypes)

\* analyzeExpectation: every call works on its own thresholds, and a call
\* that returns unmet sets the flag of the Stats
FlagUnmetMutant(written, field) == field \in PointerFields /\ written[field].unmetExpectation
FlagUnmet(written, field) == written[field].unmetExpectation

analyzeExpectation(stats) ==
    LET written == [field \in PointerFields \cup ListFields |-> WriteField(stats, field)] IN
    [stats EXCEPT !.Expectation = [field \in PointerFields \cup ListFields |-> written[field].t],
                  !.HasUnmetExpectation = \E field \in PointerFields \cup ListFields : FlagUnmet(written, field)]

\* ---- GenerateResultsReport
\* the step files below reportPath in the order of filepath.Walk, as their
\* streams; the names in the order of their first file
RECURSIVE InOrder(_, _)
InOrder(names, seen) ==
    IF names = << >> THEN << >>
    ELSE IF Head(names) \in seen THEN InOrder(Tail(names), seen)
    ELSE <<Head(names)>> \o InOrder(Tail(names), seen \cup {Head(names)})
stepNamesInChronologicalOrder(dir) == InOrder([i \in 1 .. Len(dir) |-> parseStepFile(dir[i]).parsedStepName], {})
stepFilesOf(dir, stepName) == SelectSeq(dir, LAMBDA f : parseStepFile(f).parsedStepName = stepName)

\* the loop over the step files of one step: sums, key-wise sums, appends,
\* and the Expectation of the last file
RECURSIVE MergeStepFiles(_, _)
MergeStepFiles(stats, stepFiles) ==
    IF stepFiles = << >> THEN stats
    ELSE LET f == stepFileStats(Head(stepFiles))
             merged == [Stats(AddCounts(stats.Counts, f.allCounts),
                              stats.TTFB \o f.valuesTTFB, stats.TARS \o f.valuesPARS,
                              stats.TRRT \o f.valuesTODU,
                              stats.StatusCodes (+) f.statusCodes,
                              stats.FailureTypes (+) f.failureTypes,
                              stats.ErrorTypes (+) f.errorTypes,
                              stats.TimeoutTypes (+) f.timeoutTypes,
                              stats.RequestBytes + f.requestBytes,
                              stats.ResponseBytes + f.responseBytes)
                          EXCEPT !.Expectation = parseStepFile(Head(stepFiles)).parsedStepExpectation]
         IN  MergeStepFiles(merged, Tail(stepFiles))

\* the loop over the step names: the overall sums
RECURSIVE MergeSteps(_, _)
MergeSteps(overall, steps) ==
    IF steps = << >> THEN overall
    ELSE LET s == Head(steps) IN
         MergeSteps(Stats(AddCounts(overall.Counts, s.Counts),
                          overall.TTFB \o s.TTFB, overall.TARS \o s.TARS, overall.TRRT \o s.TRRT,
                          overall.StatusCodes (+) s.StatusCodes,
                          overall.FailureTypes (+) s.FailureTypes,
                          overall.ErrorTypes (+) s.ErrorTypes,
                          overall.TimeoutTypes (+) s.TimeoutTypes,
                          overall.RequestBytes + s.RequestBytes,
                          overall.ResponseBytes + s.ResponseBytes),
                    Tail(steps))

NoReport ==
    [StepNamesInChronologicalOrder |-> << >>, StatsByStep |-> << >>, OverallStats |-> NoStats,
     unmetExpectation |-> FALSE]

GenerateResultsReport(reportPath, dir) ==
    IF Len(reportPath) = 0 THEN NoReport
    ELSE LET names == stepNamesInChronologicalOrder(dir)
             steps == [i \in 1 .. Len(names) |->
                          analyzeExpectation(MergeStepFiles(NoStats, stepFilesOf(dir, names[i])))]
             unmetExpectation == \E i \in 1 .. Len(steps) : steps[i].HasUnmetExpectation
         IN  [StepNamesInChronologicalOrder |-> names,
              StatsByStep |-> steps,
              OverallStats |-> [MergeSteps(NoStats, steps) EXCEPT !.HasUnmetExpectation = unmetExpectation],
              unmetExpectation |-> unmetExpectation]

\* ---- the report directories of the model
\* three entries a run can leave: a request answered with 200 after one tick,
\* a refused connection that the scenario marked as failed, a timeout
ReportEntries ==
    {[stepEntry(executeRequestWithTracing("s1", Step("a", 0), OkTransport, 200, <<"h">>, 1))
         EXCEPT !.Timestamps = [Start |-> 1, WroteRequest |-> 1, GotFirstResponseByte |-> 2, Done |-> 2]],
     stepEntry(MarkAsFailed(executeRequestWithTracing("s1", Step("a", 0),
                   [doErr |-> ErrRefused, hasRsp |-> FALSE, bodyErr |-> Nil], 200, <<"h">>, 1),
               <<"custom failure">>)),
     stepEntry(executeRequestWithTracing("s1", Step("a", 0),
                   [doErr |-> ErrTimeout, hasRsp |-> FALSE, bodyErr |-> Nil], 200, <<"h">>, 1))}
ReportLogs == UNION {[1 .. n -> ReportEntries] : n \in 0 .. MaxEntries}

\* three Expectations: the default, a strict one and one with lists
StrictExpectation ==
    [DefaultExpectation EXCEPT
        !.SuccessPercentageAtLeast = <<PercentageExpectation(100)>>,
        !.SuccessCountAtLeast = <<CountExpectation(1)>>,
        !.ErrorCountAtMost = <<CountExpectation(0)>>,
        !.TotalRequestResponseTimePercentileLimits = ExpectPercentileLimit(<< >>, 50, 0),
        !.TimeToFirstBytePercentileLimits = ExpectPercentileLimit(<< >>, 100, 1),
        !.TotalRequestBytesWithin = ExpectTotalBytesWithin(0, 1),
        !.StatusCodeThresholds = addStatusCodeCheck(<< >>, 200, 100, TRUE),
        !.FailureTypeMatchesThresholds = <<TypeMatchesThreshold(TRUE, ".*", 100)>>,
        !.ErrorTypeMatchesThresholds = <<TypeMatchesThreshold(FALSE, ".*", 0)>>,
        !.TimeoutTypeMatchesThresholds = <<TypeMatchesThreshold(TRUE, "a^", 50)>>]
ListExpectation ==
    [DefaultExpectation EXCEPT
        !.FailurePercentageAtMost = <<PercentageExpectation(0)>>,
        !.ErrorPercentageAtMost = <<PercentageExpectation(50)>>,
        !.TimeoutPercentageAtMost = <<PercentageExpectation(50)>>,
        !.FailureCountAtMost = <<CountExpectation(0)>>,
        !.TimeoutCountAtMost = <<CountExpectation(1)>>,
        !.TotalRequestResponseTimePercentileLimits =
            ExpectPercentileLimit(ExpectPercentileLimit(<< >>, 0, 0), 100, 0),
        !.TimeAfterRequestSentPercentileLimits =
            ExpectPercentileLimit(ExpectPercentileLimit(<< >>, 100, 1), 50, 0),
        !.TotalResponseBytesWithin = ExpectTotalBytesWithin(0, 0),
        !.StatusCodeThresholds = addStatusCodeCheck(addStatusCodeCheck(<< >>, 200, 50, FALSE), 502, 0, FALSE)]
Expectations == {DefaultExpectation, StrictExpectation, ListExpectation}

\* a step file as the run that wrote it: the step, its Expectation, the entries
StepFiles(names, logs) == [name : names, expectation : Expectations, entries : logs]
\* one run, or two merged runs of which the second, of at most one request,
\* has the same step or another
Dirs ==
    {<<f>> : f \in StepFiles({"a"}, ReportLogs)}
    \cup {<<f, g>> : f \in StepFiles({"a"}, ReportLogs),
                     g \in StepFiles(StepNames, {<< >>} \cup {<<e>> : e \in ReportEntries})}
FilesOf(runs) == [i \in 1 .. Len(runs) |-> StepLog(runs[i].name, runs[i].expectation, runs[i].entries)]

\* the end of RunFromCommandlineArgs: the analyzer on reportPath, and the
\* exit status 3 if it returns true
ReportCall(reportPath, runs) ==
    /\ ReportIdle /\ exited = << >>
    /\ reportPath = << >> => Len(runs) = 1
    /\ LET out == GenerateResultsReport(reportPath, FilesOf(runs)) IN
       /\ report' = <<[op |-> "Report", reportPath |-> reportPath, runs |-> runs, out |-> out]>>
       /\ exited' = IF out.unmetExpectation THEN <<3>> ELSE << >>
    /\ UNCHANGED <<now, cli, addResult, duration, trace, jars, respVars, storeVars, closeVars, ghostVars,
                   scenarios, mainpc, pending, wg, sc, us, currentLoopingUsers>>

\* ---- the step files of a run, as the analyzer's walk finds them
\* the names of the steps of a run, in the order the run first archives them
MaxSteps == 10
NthStep(i) == <<"login", "search", "open", "edit", "save", "list", "sort", "vote", "share",
                "print", "close", "logout">>[i]

\* strconv.Itoa and the %d of fmt: the decimal digits of a number
Digit(d) == <<"0", "1", "2", "3", "4", "5", "6", "7", "8", "9">>[d + 1]
RECURSIVE Itoa(_)
Itoa(n) == IF n < 10 THEN <<Digit(n)>> ELSE Itoa(n \div 10) \o <<Digit(n % 10)>>

\* fmt.Sprintf("step-%d.goverrun", n), character by character
Sprintf(n) ==
    <<"s", "t", "e", "p", "-">> \o Itoa(n) \o <<".", "g", "o", "v", "e", "r", "r", "u", "n">>
\* the characters of the file names in the order of their bytes
Bytes ==
    <<"-", ".", "0", "1", "2", "3", "4", "5", "6", "7", "8", "9",
      "e", "g", "n", "o", "p", "r", "s", "t", "u", "v">>
Byte(ch) == CHOOSE i \in 1 .. Len(Bytes) : Bytes[i] = ch
\* a < b as Go compares strings
RECURSIVE Less(_, _)
Less(a, b) ==
    IF b = << >> THEN FALSE
    ELSE IF a = << >> THEN TRUE
    ELSE IF Head(a) = Head(b) THEN Less(Tail(a), Tail(b))
    ELSE Byte(Head(a)) < Byte(Head(b))

\* a run that archives Responses of k steps one after the other: the store
\* it leaves
\* the registry and the folder after the first k steps were archived once:
\* k writers, the i-th on step-i.goverrun
Registered(k) ==
    Store([name \in {NthStep(i) : i \in 1 .. k} |->
               NewWriter(CHOOSE i \in 1 .. k : NthStep(i) = name)],
          [fileNo \in 1 .. k |-> << >>])
\* the file the k-th step's first ArchiveStats creates and initialises
StepFile(k) ==
    writeStepNameInit(CreateWriter(Registered(k - 1), NthStep(k)),
                      NthStep(k), DefaultExpectation).f[k]
RunOfSteps(k) == Store(Registered(k).w, [fileNo \in 1 .. k |-> StepFile(fileNo)])

\* filepath.Walk visits the files of a directory in the lexical order of
\* their names: the file numbers in that order
RECURSIVE Walk(_)
Walk(fileNos) ==
    IF fileNos = {} THEN << >>
    ELSE LET first == CHOOSE n \in fileNos :
                         \A other \in fileNos \ {n} : Less(Sprintf(n), Sprintf(other))
         IN  <<first>> \o Walk(fileNos \ {first})

\* the analyzer on the folder of a run of k steps
WalkCall(k) ==
    /\ ReportIdle
    /\ LET st == RunOfSteps(k)
           order == Walk(DOMAIN st.f)
           dir == [i \in 1 .. Len(order) |-> st.f[order[i]]]
       IN  report' = <<[op |-> "Walk", steps |-> k, walked |-> order,
                        out |-> stepNamesInChronologicalOrder(dir)]>>
    /\ ReportFrame

Called(op) == report # << >> /\ report[1].op = op

\* ---- the analyzer on the folder of an interrupted run
\* a step file on disk: the messages that reached it, and whether the gzip
\* stream lacks its trailer (the writer was never closed, or the file was cut)
MaxRequests == 3
RECURSIVE DecodeErr(_, _, _)
DecodeErr(stream, known, want) ==
    IF stream = << >> THEN FALSE
    ELSE LET m == Head(stream) IN
         IF m.def THEN DecodeErr(Tail(stream), known \cup {m.type}, want)
         ELSE ~(m.type = want /\ (m.type \in BasicTypes \/ m.type \in known))
\* dec.Decode on such a file: at the end of a complete stream io.EOF, at the
\* end of a truncated one io.ErrUnexpectedEOF, on every call
Read(file, want, zero) ==
    LET d == Decode(file.stream, file.known, want, zero) IN
    IF d.eof
    THEN [eof |-> ~file.truncated, err |-> file.truncated, val |-> zero,
          file |-> [file EXCEPT !.stream = << >>, !.known = d.known]]
    ELSE [eof |-> FALSE, err |-> DecodeErr(file.stream, file.known, want), val |-> d.val,
          file |-> [file EXCEPT !.stream = d.rest, !.known = d.known]]
OnDisk(stream, truncated) == [stream |-> stream, known |-> {}, truncated |-> truncated]

\* the callback of filepath.Walk on one step file: the version and the step
\* name, any error of either Decode is returned
walkFn(file) ==
    LET v == Read(file, "int", 0)
        n == Read(v.file, "string", "")
    IN  [err |-> v.eof \/ v.err \/ n.eof \/ n.err, parsedStepName |-> n.val]

\* parseStepFile up to its loop: the errors of the three Decodes are logged
parseStepFileHead(file) ==
    LET v == Read(file, "int", 0)
        n == Read(v.file, "string", "")
        e == Read(n.file, "Expectation", [SuccessPercentageAtLeast |-> 0])
    IN  [file |-> e.file, Requests |-> 0, decoded |-> 0,
         logged |-> Cardinality({d \in {<<1, v>>, <<2, n>>, <<3, e>>} : d[2].eof \/ d[2].err})]

\* the step files of the analyzed folders: every prefix of a log of step "a",
\* cut or complete, alone or before a file of step "b"
CutsOf(stream) ==
    {OnDisk(SubSeq(stream, 1, n), TRUE) : n \in 0 .. Len(stream)} \cup {OnDisk(stream, FALSE)}
FilesA == UNION {CutsOf(StepLog("a", DefaultExpectation, entries)) : entries \in ReportLogs}
FilesB ==
    LET log == StepLog("b", DefaultExpectation, <<CHOOSE e \in ReportEntries : e.Timestamps.Done = 2>>)
    IN  {OnDisk(log, FALSE), OnDisk(log, TRUE)}
Folders == {<<f>> : f \in FilesA} \cup {<<f, g>> : f \in FilesA, g \in FilesB}
                                  \cup {<<g, f>> : f \in FilesA, g \in FilesB}

\* GenerateResultsReport on a folder: the walk, whose error panics, then the
\* parse of the first file up to its loop
AnalyzeCall(dir) ==
    /\ ReportIdle
    /\ LET failed == \E i \in 1 .. Len(dir) : walkFn(dir[i]).err IN
       report' = <<[op |-> "Analyze", dir |-> dir, at |-> 1,
                    pc |-> IF failed THEN "panic" ELSE "parse",
                    parse |-> parseStepFileHead(dir[1])]>>
    /\ ReportFrame

\* one turn of the loop of parseStepFile, and at io.EOF the next file or the
\* end of the report
ParseLoop ==
    /\ Called("Analyze") /\ report[1].pc = "parse"
    /\ report[1].parse.Requests < MaxRequests
    /\ LET r == report[1]
           d == Read(r.parse.file, "StepEntry", ZeroStepEntry)
       IN  report' =
             IF d.eof
             THEN IF r.at < Len(r.dir)
                  THEN <<[r EXCEPT !.at = @ + 1, !.parse = parseStepFileHead(r.dir[r.at + 1])]>>
                  ELSE <<[r EXCEPT !.pc = "done"]>>
             ELSE <<[r EXCEPT !.parse = [@ EXCEPT !.file = d.file,
                                                  !.Requests = @ + 1,
                                                  !.decoded = IF d.err THEN @ ELSE @ + 1,
                                                  !.logged = IF d.err THEN @ + 1 ELSE @]]>>
    /\ ReportFrame


InitReport == InitRun /\ scenarios = SharedStepRun

\* a call starts on a fresh analyzer only
NextReport ==
    \/ ReportIdle /\ \E stats \in AllTimestamps : TimestampsCall(stats)
    \/ ReportIdle /\ \E min, max, bytes \in 0 .. MaxBytes : WriteTotalBytesCall(min, max, bytes)
    \/ ReportIdle /\ \E entries \in Logs, isAtLeast \in BOOLEAN, statusCode \in {200, 502},
                        percentage \in StatusCodePercentages :
                            WriteStatusCodeCall(entries, isAtLeast, statusCode, percentage)
    \/ ReportIdle /\ \E entries \in TimedLogs, pctlExpcts \in PercentileLimits :
                            WritePercentileCall(entries, pctlExpcts)
    \/ ReportIdle /\ \E reportPath \in {<< >>, <<"d">>}, runs \in Dirs : ReportCall(reportPath, runs)
    \/ ReportIdle /\ \E k \in 1 .. MaxSteps : WalkCall(k)
    \/ ReportIdle /\ \E dir \in Folders : AnalyzeCall(dir)
    \/ ParseLoop

SpecReport == InitReport /\ [][NextReport]_vars

\* the analyzer is one goroutine that nothing holds up: a loop that can take
\* another turn takes it
SpecAnalyze == InitReport /\ [][NextReport]_vars /\ WF_report(ParseLoop)

\* ------------------------------------------ one send and its tracing hooks
\* executeRequestWithTracing stamps Start and Done on the goroutine of the
\* user.  The transport writes the request and reads the response on two
\* goroutines of the connection, which call the hooks wroteRequest and
\* gotFirstResponseByte; nothing orders a hook with the statements of the
\* user's goroutine except the hand-over of the response by Do.
MaxTrace == 3
MaxHops == 1
TraceFrame == UNCHANGED <<cli, addResult, duration, report, jars, respVars, storeVars, closeVars, ghostVars, schedVars>>

\* the headers of the outgoing request: a value per header name, << >> for a
\* header that is not set; a value is the sequence of the pieces the code
\* concatenates
Set(header, key, value) == [header EXCEPT ![key] = value]
Del(header, key) == [header EXCEPT ![key] = << >>]

\* the user and the step of the send
TraceUser == [Scenario |-> "s1", CurrentUser |-> 1, CurrentLoop |-> 12]
TraceStep == [Name |-> "a"]
ScenarioStepValue(user, step) == <<user.Scenario, ": ", step.Name>>
UserLoopValue(user) == Itoa(user.CurrentUser) \o <<"/">> \o Itoa(user.CurrentLoop)

\* request interceptors a program may register: the one of the example
\* program, one that removes a header and one that sets a header of its own
Interceptors == {"loadTest", "strip", "relabel"}
Intercept(fn, user, header) ==
    CASE fn = "loadTest" -> Set(header, "Load-Test", <<"Target">>)
      [] fn = "strip" -> Del(header, "Goverrun-Scenario-Step")
      [] fn = "relabel" -> Set(header, "Goverrun-User-Loop", <<"0", "/", "0">>)
MaxInterceptors == 2

\* the program sets the exported flags before it registers and runs
SetHeaderFlags(addScenarioStep, addUserLoop) ==
    /\ trace.pc = "idle" /\ trace.requestInterceptors = << >>
    /\ ~trace.AddScenarioStepHeader /\ ~trace.AddUserLoopHeader
    /\ addScenarioStep \/ addUserLoop
    /\ trace' = [trace EXCEPT !.AddScenarioStepHeader = addScenarioStep,
                              !.AddUserLoopHeader = addUserLoop]
    /\ UNCHANGED now /\ TraceFrame

AddRequestInterceptor(fn) ==
    /\ trace.pc = "idle" /\ Len(trace.requestInterceptors) < MaxInterceptors
    /\ trace' = [trace EXCEPT !.requestInterceptors = Append(@, fn)]
    /\ UNCHANGED now /\ TraceFrame

\* the diagnostic headers, set where executeRequestWithTracing sets them
DiagnosticHeaders(header, user, step, addScenarioStep, addUserLoop) ==
    LET h1 == IF addScenarioStep
              THEN Set(header, "Goverrun-Scenario-Step", ScenarioStepValue(user, step))
              ELSE header
    IN  IF addUserLoop THEN Set(h1, "Goverrun-User-Loop", UserLoopValue(user)) ELSE h1

\* executeRequestWithTracing begins: the headers and cookies of the Request,
\* then the diagnostic headers
SetDiagnosticHeaders ==
    /\ trace.pc = "idle"
    /\ trace' = [trace EXCEPT !.pc = "headers",
                              !.Header = DiagnosticHeaders(NoHeader, TraceUser, TraceStep,
                                                           trace.AddScenarioStepHeader,
                                                           trace.AddUserLoopHeader)]
    /\ UNCHANGED now /\ TraceFrame

\* one iteration of the range over requestInterceptors: fn(user, request.Request)
CallInterceptor ==
    LET i == Len(trace.invoked) + 1 IN
    /\ trace.pc = "headers" /\ i <= Len(trace.requestInterceptors)
    /\ trace' = [trace EXCEPT !.Header = Intercept(trace.requestInterceptors[i], TraceUser, @),
                              !.invoked = Append(@, trace.requestInterceptors[i])]
    /\ UNCHANGED now /\ TraceFrame

\* rsp.Timestamps.Start = time.Now(), then HttpClient.Do hands the request
\* to the transport
TraceStart ==
    /\ trace.pc = "headers" /\ Len(trace.invoked) = Len(trace.requestInterceptors)
    /\ trace' = [trace EXCEPT !.pc = "sent", !.Timestamps.Start = now, !.open = TRUE,
                              !.events = <<"Start", "dispatch">>,
                              !.dispatched = <<trace.Header>>]
    /\ UNCHANGED now /\ TraceFrame

\* the hook of the write loop of the connection
wroteRequest ==
    /\ trace.open /\ ~trace.wrote
    /\ trace' = [trace EXCEPT !.wrote = TRUE, !.Timestamps.WroteRequest = now]
    /\ UNCHANGED now /\ TraceFrame

\* the hook of the read loop of the connection; a server can answer before
\* it has read the whole request
gotFirstResponseByte ==
    /\ trace.open /\ ~trace.got
    /\ trace' = [trace EXCEPT !.got = TRUE, !.Timestamps.GotFirstResponseByte = now]
    /\ UNCHANGED now /\ TraceFrame

\* the response is a redirect: Do sends the next request with the same trace
TraceRedirect ==
    /\ trace.pc = "sent" /\ trace.open /\ trace.wrote /\ trace.got /\ trace.hops < MaxHops
    /\ trace' = [trace EXCEPT !.hops = @ + 1, !.wrote = FALSE, !.got = FALSE]
    /\ UNCHANGED now /\ TraceFrame

\* Do returns and the next statement stamps Done: with the response, whose
\* first byte the read loop has seen; with a timeout of the client, while
\* the goroutines of the connection may still run; or with a connection
\* that was refused
DoReturns(outcome) ==
    /\ trace.pc = "sent"
    /\ CASE outcome = "response" -> trace.got
         [] outcome = "timeout" -> now > trace.Timestamps.Start
         [] outcome = "refused" -> ~trace.wrote /\ ~trace.got /\ trace.hops = 0
    /\ trace' = [trace EXCEPT !.pc = IF outcome = "response" THEN "body" ELSE "done",
                              !.outcome = outcome, !.Timestamps.Done = now,
                              !.open = outcome # "refused",
                              !.events = Append(@, "Done")]
    /\ UNCHANGED now /\ TraceFrame

\* the connection of a request that timed out is closed
ConnClosed ==
    /\ trace.open /\ trace.outcome = "timeout"
    /\ trace' = [trace EXCEPT !.open = FALSE]
    /\ UNCHANGED now /\ TraceFrame

\* io.ReadAll(responseOfCall.Body) has returned
BodyRead ==
    /\ trace.pc = "body"
    /\ trace' = [trace EXCEPT !.pc = "done", !.open = FALSE, !.events = Append(@, "bodyRead")]
    /\ UNCHANGED now /\ TraceFrame

\* ArchiveStats: stepEntry copies *response.Timestamps
TraceArchive ==
    /\ trace.pc = "done"
    /\ trace' = [trace EXCEPT !.pc = "archived", !.entry = <<trace.Timestamps>>]
    /\ UNCHANGED now /\ TraceFrame

\* time passes during a send
TraceTick ==
    /\ trace.pc \in {"sent", "body", "done"} /\ now < MaxTrace
    /\ now' = now + 1
    /\ UNCHANGED trace /\ TraceFrame

InitTrace == InitRun /\ scenarios = SharedStepRun

NextTrace ==
    \/ \E addScenarioStep, addUserLoop \in BOOLEAN : SetHeaderFlags(addScenarioStep, addUserLoop)
    \/ \E fn \in Interceptors : AddRequestInterceptor(fn)
    \/ SetDiagnosticHeaders
    \/ CallInterceptor
    \/ TraceStart
    \/ wroteRequest
    \/ gotFirstResponseByte
    \/ TraceRedirect
    \/ \E outcome \in {"response", "timeout", "refused"} : DoReturns(outcome)
    \/ ConnClosed
    \/ BodyRead
    \/ TraceArchive
    \/ TraceTick

SpecTrace == InitTrace /\ [][NextTrace]_vars

\* ------------------------------------------- a run that may be interrupted
\* two scenarios of one user each, with a step each, one loop each
InterruptedRun ==
    [t \in Titles |->
        IF t = "s1"
        THEN Scenario(t, Runner("a", {200}, {90}, 1), LoadConfig(1, 0, 1, 0, NoDelay, RandomInterval(1, 1), TRUE), FALSE)
        ELSE Scenario(t, Runner("b", {200}, {0}, 1), LoadConfig(1, 0, 1, 0, NoDelay, RandomInterval(1, 1), TRUE), FALSE)]

InitInterrupt ==
    /\ now = 1
    /\ tuser = [Disabled |-> FALSE]
    /\ request = << >> /\ response = << >> /\ transport = << >> /\ calls = << >>
    /\ panicked = FALSE /\ dispatched = 0
    /\ folder = << >>
    /\ InitStore /\ InitTeardown /\ InitSched
    /\ scenarios = InterruptedRun

NextInterrupt ==
    \/ Next
    \/ Interrupt
    \/ TeardownLock("sig")
    \/ TeardownScenarios("sig")
    \/ \E name \in StepNames : TeardownCloseStep("sig", name)
    \/ TeardownRace("sig")
    \/ TeardownEnd("sig")
    \/ SigExit

SpecInterrupt == InitInterrupt /\ [][NextInterrupt]_vars

\* ------------------- an interrupted run with a report folder, scheduled
\* the two scenarios of InterruptedRun write to a report folder; every task
\* that can take a step eventually takes one (the Go scheduler runs every
\* runnable goroutine, a sync.Mutex is handed to a waiting goroutine)
\* the steps of ArchiveStats of one user task, of the teardown of one caller
ArchiveStep(u) ==
    ArchiveBegin(u) \/ ArchiveCreate(u) \/ ArchiveInit(u) \/ EntryLock(u) \/ EntryEncode(u)
TeardownStep(c) ==
    \/ TeardownLock(c)
    \/ TeardownScenarios(c)
    \/ \E name \in StepNames : TeardownCloseStep(c, name)
    \/ TeardownEnd(c)

\* (every step of ArchiveStats changes us, every step of the teardown td)
Scheduling ==
    /\ \A u \in Users : WF_us(ArchiveStep(u))
    /\ \A c \in Callers : WF_td(TeardownStep(c))

\* the run writes to a report folder; the runners call no Expect* method
\* after ArchiveStats
NextContended ==
    \/ RunStart(<<"o", "u", "t">>)
    \/ \E t \in Titles : RunSpawnScenario(t) \/ ScenarioBegin(t) \/ ScenarioSpawnUser(t) \/ ScenarioDone(t)
    \/ RunWait
    \/ RunReturn
    \/ \E u \in Users : UserStart(u) \/ UserLoop(u) \/ RunnerReturn(u)
    \/ \E u \in Users, code \in {200}, p \in {0, 90} : RunnerSend(u, code, p)
    \/ \E u \in Users : ArchiveStep(u)
    \/ \E c \in Callers : TeardownStep(c)
    \/ Interrupt
    \/ TeardownRace("sig")
    \/ SigExit
    \/ Tick

SpecContended == InitInterrupt /\ [][NextContended]_vars /\ Scheduling

\* ------------------------------------- the specification of one Response
InitResponse ==
    /\ now = 1
    /\ tuser \in [Disabled : BOOLEAN]
    /\ request = << >> /\ response = << >> /\ transport = << >> /\ calls = << >>
    /\ panicked = FALSE /\ dispatched = 0
    /\ folder \in {<< >>, <<"o", "u", "t">>}
    /\ InitStore /\ InitTeardown /\ InitSched
    /\ scenarios = [t \in Titles |-> Scenario(t, NoRequest, LoadConfig(1, 0, 0, 0, NoDelay, NoDelay, TRUE), TRUE)]

NextResponse ==
    \/ \E raw \in BOOLEAN : StepRequest(raw)
    \/ Send
    \/ \E a \in Assertions : AssertCall(a)
    \/ MarkAsFailedCall(<<"custom failure">>)
    \/ ArchiveStatsCall

SpecResponse == InitResponse /\ [][NextResponse]_vars

\* ----------------------------------------------- properties of a Response
IsAssertion(c) == c.kind \notin {"MarkAsFailed", "ArchiveStats"}
NoMarkAsFailed == \A i \in 1 .. Len(calls) : calls[i].kind # "MarkAsFailed"
\* the positions of the assertions whose condition is false on the Response
Failing(rsp) == {i \in 1 .. Len(calls) : IsAssertion(calls[i]) /\ ~AssertionOk(calls[i], rsp)}
First(S) == CHOOSE i \in S : \A j \in S : i <= j

\* C1: over any chain of assertion calls on one Response, AssertionFailed is
\* the message of the first assertion in call order whose condition is false
\* (later assertions do not change it), and it stays empty when the send left
\* Error or Timeout set.
C1_FirstFailureIsKept ==
    (response # << >> /\ NoMarkAsFailed) =>
        LET rsp == response[1] IN
        rsp.AssertionFailed =
            IF rsp.Error # Nil \/ rsp.Timeout # Nil \/ Failing(rsp) = {} THEN Nil
            ELSE AssertionMessage(calls[First(Failing(rsp))], rsp)

C1_Witness ==
    /\ response # << >> /\ NoMarkAsFailed
    /\ \E i, j \in Failing(response[1]) :
          /\ i < j
          /\ AssertionMessage(calls[i], response[1]) # AssertionMessage(calls[j], response[1])
          /\ response[1].AssertionFailed = AssertionMessage(calls[i], response[1])

Outcomes(rsp) ==
    (IF rsp.Timeout # Nil THEN {"Timeout"} ELSE {})
    \cup (IF rsp.Error # Nil THEN {"Error"} ELSE {})
    \cup (IF Len(rsp.AssertionFailed) > 0 THEN {"AssertionFailed"} ELSE {})

\* C2: after any sequence of public operations on a Response (send, body
\* read, assertions, MarkAsFailed, ArchiveStats) at most one of Timeout,
\* Error and AssertionFailed is set.
C2_AtMostOneOutcome ==
    response # << >> => Cardinality(Outcomes(response[1])) <= 1

TransportErrors(tr) == {tr.doErr, tr.bodyErr} \ {Nil}

\* C3: a send that fails by a network deadline breach, on dispatch or on the
\* body read, leaves Timeout set and Error unset; one that fails otherwise
\* leaves Error set and Timeout unset; one that does not fail leaves both unset.
C3_TimeoutOrError ==
    response # << >> =>
        LET rsp == response[1]
            errs == TransportErrors(transport[1])
        IN  /\ errs = {} => (rsp.Timeout = Nil /\ rsp.Error = Nil)
            /\ (errs # {} /\ \A e \in errs : IsNetTimeout(e)) =>
                   (rsp.Timeout \in errs /\ rsp.Error = Nil)
            /\ (errs # {} /\ \A e \in errs : ~IsNetTimeout(e)) =>
                   (rsp.Error \in errs /\ rsp.Timeout = Nil)

C3_Witness ==
    /\ response # << >>
    /\ transport[1].doErr = Nil /\ transport[1].bodyErr = ErrBodyTimeout
    /\ response[1].Timeout = ErrBodyTimeout /\ response[1].Error = Nil

\* C5: for a user whose Disabled flag is set, building a request and sending
\* it dispatches nothing and completes without a nil dereference.
C5_DisabledSendIsNoOp ==
    tuser.Disabled => (~panicked /\ dispatched = 0)

\* ------------------------------------------------ properties of the store
StepEntriesOf(stream) == SelectSeq(stream, LAMBDA m : ~m.def /\ m.type = "StepEntry")
RECURSIVE CountEntries(_)
CountEntries(F) ==
    IF F = {} THEN 0
    ELSE LET k == CHOOSE x \in F : TRUE
         IN  Len(StepEntriesOf(files[k])) + CountEntries(F \ {k})
\* the StepEntries in all step logs
TotalEntries == CountEntries(DOMAIN files)
\* the users inside a first ArchiveStats call that has not appended yet
Archiving == {u \in Users : us[u].pc \in {"create", "init", "entry", "encode"}}
\* the users whose Response belongs to step `name`
OnStep(name) == {u \in Users : us[u].rsp # << >> /\ us[u].rsp[1].Step.Name = name}

InRunner(u) == us[u].pc \in {"runner", "chain", "create", "init", "entry", "encode"}

\* C6: no user is inside an invocation of the runner that started after the
\* user's ramp-down cutoff had elapsed.
C6_NoRunnerAfterCutoff ==
    \A u \in Users : InRunner(u) => us[u].runStart <= us[u].cutoff

\* C7: once the teardown of Run has begun, every scenario task and every user
\* task has terminated: no runner and no ArchiveStats call is in progress, and
\* none can start.
C7_TeardownAfterAllTasks ==
    td["main"].pc # "idle" =>
        /\ \A t \in Titles : sc[t].pc \in {"none", "done"}
        /\ \A u \in Users : us[u].pc \in {"unborn", "done"}

C7_Witness ==
    /\ td["main"].pc = "done"
    /\ scenariosWriter.closed
    /\ archiveCalled > 0
    /\ \E n \in DOMAIN stepHistogramWriters : stepHistogramWriters[n].closed

\* C8: when the process has exited after an interrupt, the scenario index of
\* a run with a report folder is written and closed, and every step writer
\* created during the run is closed.
C8_AllClosedAtExit ==
    exited # << >> =>
        /\ scenariosWriter.created => scenariosWriter.closed
        /\ \A n \in DOMAIN stepHistogramWriters : stepHistogramWriters[n].closed

Header(name, stream) == SubSeq(SelectSeq(stream, LAMBDA m : ~m.def), 1, 3)
AfterHeader(stream) == LET v == SelectSeq(stream, LAMBDA m : ~m.def) IN SubSeq(v, 4, Len(v))

\* C9: every step name has had one writer and one file created for it, however
\* many users called ArchiveStats for it at once; the file starts with the
\* header (version, step name, Expectation), written once, and holds nothing
\* but StepEntries after it; it is empty only while its creator has yet to
\* write the header.
C9_OneWriterOneHeader ==
    /\ \A i, j \in 1 .. Len(created) : created[i] = created[j] => i = j
    /\ DOMAIN stepHistogramWriters = {created[i] : i \in 1 .. Len(created)}
    /\ DOMAIN files = 1 .. Len(created)
    /\ \A n \in DOMAIN stepHistogramWriters :
          LET stream == files[stepHistogramWriters[n].file] IN
          IF \E u \in OnStep(n) : us[u].pc = "init"
          THEN stream = << >>
          ELSE /\ Header(n, stream) =
                     <<[def |-> FALSE, type |-> "int", val |-> FormatVersion],
                       [def |-> FALSE, type |-> "string", val |-> n],
                       [def |-> FALSE, type |-> "Expectation", val |-> Header(n, stream)[3].val]>>
               /\ Header(n, stream)[3].val \in {Step(n, p).Expectation : p \in Percentages}
               /\ \A i \in 1 .. Len(AfterHeader(stream)) : AfterHeader(stream)[i].type = "StepEntry"

\* two users were about to call ArchiveStats for a step without a writer; one
\* has created the writer and not yet written the header, the other waits
C9_Witness ==
    \E u, v \in Users :
        /\ u # v
        /\ us[u].pc = "init"
        /\ us[v].pc = "chain" /\ us[v].archCalls = 0 /\ ~us[v].rsp[1].archived
        /\ us[v].rsp[1].Step.Name = us[u].rsp[1].Step.Name
        /\ ShouldArchive(us[v].rsp[1])

\* the entries of the writeStepEntry calls on the writer of `name` that have
\* encoded, in the order in which the calls took the lock
Written(name) ==
    LET encoding == Cardinality({u \in OnStep(name) : us[u].pc = "encode"})
    IN  [i \in 1 .. (Len(lockOrder[name]) - encoding) |-> lockOrder[name][i].entry]

\* C10: at most one writeStepEntry call is encoding on a writer, and the
\* StepEntries the analyzer decodes from a step log are the entries of the
\* calls that have encoded, in the order in which they took the writer's lock.
C10_DecodedInLockOrder ==
    \A n \in DOMAIN stepHistogramWriters :
        /\ Cardinality({u \in OnStep(n) : us[u].pc = "encode"}) <= 1
        /\ (\A u \in OnStep(n) : us[u].pc # "init") =>
               LET parsed == parseStepFile(files[stepHistogramWriters[n].file]) IN
               /\ parsed.parsedStepName = n
               /\ parsed.entries = Written(n)

C10_Witness ==
    \E n \in DOMAIN stepHistogramWriters :
        /\ Len(lockOrder[n]) = 2
        /\ lockOrder[n][1].by # lockOrder[n][2].by
        /\ lockOrder[n][1].entry # lockOrder[n][2].entry
        /\ parseStepFile(files[stepHistogramWriters[n].file]).entries =
               <<lockOrder[n][1].entry, lockOrder[n][2].entry>>

\* the Expectation the analyzer reads from the step log of `name`
StoredExpectation(name) ==
    parseStepFile(files[stepHistogramWriters[name].file]).parsedStepExpectation
HeaderWritten(name) ==
    name \in DOMAIN stepHistogramWriters /\ files[stepHistogramWriters[name].file] # << >>

\* C11: the Expectation in a step log is the one the step carried whose
\* ArchiveStats call created the writer, whatever Expectation later Responses
\* of that step name carry and whatever Expect* calls follow the archive.
C11_FirstExpectationIsStored ==
    \A n \in StepNames :
        HeaderWritten(n) => StoredExpectation(n) = firstExpectation[n][1]

\* a Response of the step is archived whose step first carried another
\* Expectation than the stored one, and had its Expectation changed afterwards
C11_Witness ==
    \E u \in Users :
        /\ us[u].pc = "chain" /\ us[u].rsp[1].archived
        /\ HeaderWritten(us[u].rsp[1].Step.Name)
        /\ StoredExpectation(us[u].rsp[1].Step.Name).SuccessPercentageAtLeast = 90
        /\ us[u].rsp[1].Step.Expectation.SuccessPercentageAtLeast = 0
        /\ Len(lockOrder[us[u].rsp[1].Step.Name]) >= 2


ClearsJar(u) == scenarios[TitleOf(u)].LoadConfig.ClearCookieJarOnEveryLoop
CookiesOfLoops(n) == {<<"loop", k>> : k \in 1 .. n}

\* C12: a user whose scenario clears the cookie jar starts every loop with
\* a jar created in that loop and holding no cookie; a user whose scenario keeps
\* the jar uses in every loop the jar created in its first loop, which holds the
\* cookies of all its earlier loops; no jar belongs to two users.
C12_CookieJarLifecycle ==
    /\ \A u \in Users : us[u].CurrentLoop >= 1 =>
          /\ us[u].Jar # << >>
          /\ ClearsJar(u) =>
                /\ us[u].jarLoop = us[u].CurrentLoop
                /\ us[u].pc = "runner" => us[u].cookies = {}
                /\ us[u].cookies \subseteq SetCookie(us[u])
          /\ ~ClearsJar(u) =>
                /\ us[u].jarLoop = 1
                /\ us[u].pc = "runner" /\ scenarios[TitleOf(u)].Runner.step # ""
                      => us[u].cookies = CookiesOfLoops(us[u].CurrentLoop - 1)
                /\ us[u].pc = "chain" => us[u].cookies = CookiesOfLoops(us[u].CurrentLoop)
    /\ \A u, v \in Users : u # v /\ us[u].Jar # << >> => us[u].Jar # us[v].Jar
C12_Witness ==
    \E u \in Users : /\ ~ClearsJar(u) /\ us[u].CurrentLoop = 2 /\ us[u].pc = "chain"
                      /\ us[u].jarLoop = 1 /\ us[u].cookies = CookiesOfLoops(2)

\* C13: what a runner stored in user.Data in the user's first loop is what
\* every later loop of that user reads, whatever the other users stored; the
\* user's number never changes; the loop numbers a user's runner sees are
\* 1, 2, 3, ... in this order.
C13_UserDataPersists ==
    \A u \in Users : us[u].pc # "unborn" =>
        /\ us[u].CurrentUser = u[2]
        /\ us[u].seen = [k \in 1 .. us[u].CurrentLoop |-> k]
        /\ us[u].pc \in {"runner", "chain"} => UserDataOk(us[u])
        /\ us[u].Data.test = IF us[u].CurrentLoop >= 2 \/ (us[u].pc \in {"head", "done"} /\ us[u].CurrentLoop = 1)
                             THEN <<u[2]>> ELSE << >>
C13_Witness ==
    \E u, v \in Users : /\ u # v /\ us[u].Data.test = <<u[2]>> /\ us[v].Data.test = <<v[2]>>
                         /\ us[u].CurrentLoop = 2 /\ us[u].pc = "chain" /\ UserDataOk(us[u])

UsersOf(t) == {u \in Users : TitleOf(u) = t}
RECURSIVE ReturnedRunners(_)
ReturnedRunners(set) ==
    IF set = {} THEN 0
    ELSE LET u == CHOOSE x \in set : TRUE
         IN  us[u].CurrentLoop - (IF InRunner(u) THEN 1 ELSE 0) + ReturnedRunners(set \ {u})

\* C14: once the tasks of a scenario that is not ignored run, its
\* ExecutionCount is the number of runner invocations of its users that have
\* returned; in particular after Run has returned it is the number of all
\* loops of all its users.
C14_ExecutionCountIsExact ==
    \A t \in Titles : ~scenarios[t].Ignored /\ sc[t].pc # "none" =>
        scenarios[t].ExecutionCount = ReturnedRunners(UsersOf(t))
C14_Witness ==
    /\ mainpc = "returned"
    /\ \E t \in Titles : /\ scenarios[t].ExecutionCount = 4
                          /\ \E u, v \in UsersOf(t) :
                                u # v /\ us[u].CurrentLoop = 2 /\ us[v].CurrentLoop = 2

Spawning(t) == ~scenarios[t].Ignored /\ sc[t].pc \in {"spawning", "done"}
SleepBetweenSpawns(cfg) ==
    IF cfg.LoopingUsers = 1 THEN 0 ELSE cfg.RampUp \div (cfg.LoopingUsers - 1)

C16_RampDownCutoffs ==
    \A t \in Titles : Spawning(t) =>
        LET cfg == scenarios[t].LoadConfig
            N == cfg.LoopingUsers
            end == sc[t].start + cfg.RampUp + cfg.Plateau + cfg.RampDown
            rampDownEntry == end - cfg.RampDown
        IN  /\ sc[t].end = end
            /\ \A i \in 1 .. sc[t].next - 1 :
                  /\ us[<<t, i>>].cutoff = rampDownEntry + i * (cfg.RampDown \div N)
                  /\ rampDownEntry <= us[<<t, i>>].cutoff /\ us[<<t, i>>].cutoff <= end
                  /\ \A j \in 1 .. i : us[<<t, j>>].cutoff <= us[<<t, i>>].cutoff
C16_Witness ==
    \E t \in Titles :
        /\ Spawning(t) /\ scenarios[t].LoadConfig.LoopingUsers = 2 /\ scenarios[t].LoadConfig.RampDown = 3
        /\ sc[t].next = 3
        /\ us[<<t, 1>>].cutoff = sc[t].end - 2 /\ us[<<t, 2>>].cutoff = sc[t].end - 1

\* C17: a call of AddScenario with LoopingUsers <= 0, a negative RampUp,
\* Plateau or RampDown, or a registered title is rejected (panic or error), and
\* after a rejection the registry is what it was before the call, the scenario
\* registered first included; a scenario with none of these is registered.
Rejectable(a) ==
    \/ a.scenario.LoadConfig.LoopingUsers <= 0
    \/ a.scenario.LoadConfig.RampUp < 0
    \/ a.scenario.LoadConfig.Plateau < 0
    \/ a.scenario.LoadConfig.RampDown < 0
    \/ a.scenario.Title \in DOMAIN a.before
C17_AddScenarioRejects ==
    addResult # << >> =>
        LET a == addResult[1]
        IN  IF Rejectable(a)
            THEN /\ a.err # Nil
                 /\ scenarios = a.before
                 /\ a.err[1] = "panic" => exited = <<2>>
            ELSE /\ a.err = Nil
                 /\ DOMAIN scenarios = DOMAIN a.before \cup {a.scenario.Title}
                 /\ scenarios[a.scenario.Title] = a.scenario
                 /\ \A t \in DOMAIN a.before : scenarios[t] = a.before[t]
C17_Witness ==
    /\ addResult # << >>
    /\ addResult[1].err = <<"error", "scenario already exists">>
    /\ addResult[1].scenario.Title \in DOMAIN scenarios
    /\ scenarios[addResult[1].scenario.Title] # addResult[1].scenario
    /\ exited = << >>

\* C18: a call of AddScenario with a StartDelay or LoopDelay whose Min is
\* greater than its Max is rejected.
BadInterval(i) == i.Min > i.Max
C18_BadIntervalRejected ==
    addResult # << >> =>
        LET a == addResult[1]
        IN  BadInterval(a.scenario.LoadConfig.StartDelay) \/ BadInterval(a.scenario.LoadConfig.LoopDelay)
                => a.err # Nil

\* C19: for 0 <= min <= max RandomDuration(min, max) returns, and its value
\* d satisfies min <= d <= max, with d = min when min = max.
C19_RandomDurationInRange ==
    duration # << >> /\ 0 <= duration[1].min /\ duration[1].min <= duration[1].max =>
        /\ ~duration[1].panic
        /\ duration[1].min <= duration[1].d /\ duration[1].d <= duration[1].max
        /\ duration[1].min = duration[1].max => duration[1].d = duration[1].min
C19_Witness ==
    /\ duration # << >> /\ ~duration[1].panic
    /\ duration[1].min = 2 /\ duration[1].max = 5 /\ duration[1].d = 4

\* C20: after the report subcommand the analyzer has read the directory of
\* the report subcommand's path flag.
C20_ReportReadsItsPath ==
    cli.parsed = "report" /\ cli.analyzed # << >> => cli.analyzed = cli.reportFolder

\* ------------------------------------------------ properties of Timestamps
\* C30: for every Timestamps value, TimeToFirstByte(false) is completed iff
\* GotFirstResponseByte is set, and is then max(0, GotFirstResponseByte -
\* Start); TimeToFirstByte(true) is completed iff GotFirstResponseByte and
\* WroteRequest are set, and is then max(0, GotFirstResponseByte -
\* WroteRequest); TotalDuration is completed iff Done is set, and is then
\* max(0, Done - Start).
Max0(n) == IF n < 0 THEN 0 ELSE n
C30_DurationsOfTimestamps ==
    Called("Timestamps") =>
        LET r == report[1]
            s == r.stats
        IN  /\ r.TTFB.completed <=> ~IsZero(s.GotFirstResponseByte)
            /\ r.TTFB.completed => r.TTFB.d = Max0(s.GotFirstResponseByte - s.Start)
            /\ r.TARS.completed <=> (~IsZero(s.GotFirstResponseByte) /\ ~IsZero(s.WroteRequest))
            /\ r.TARS.completed => r.TARS.d = Max0(s.GotFirstResponseByte - s.WroteRequest)
            /\ r.TRRT.completed <=> ~IsZero(s.Done)
            /\ r.TRRT.completed => r.TRRT.d = Max0(s.Done - s.Start)

\* ------------------------------------------------ properties of the analyzer
\* C24: a TotalRequestBytesWithin / TotalResponseBytesWithin threshold
\* (min, max), max = 0 included, with the cumulative byte total b is Met iff
\* min <= b <= max, and Unmet otherwise.
C24_BytesWithinRange ==
    Called("TotalBytes") =>
        LET r == report[1]
            inRange == r.Min <= r.bytes /\ r.bytes <= r.Max
        IN  /\ r.out.result = "Met" <=> inRange
            /\ r.out.t[1].Unmet <=> ~inRange

\* the requests of a log that returned the status code c
Returned(entries, c) == Cardinality({i \in 1 .. Len(entries) : entries[i].StatusCode = c})

Reached(limits, n, i) ==
    \A j \in 1 .. i - 1 : limits[j].Percentile > 0 /\ n >= ValuesNeeded(limits[j].Percentile)

Evaluated(t) == t.ActualValue # Nil

\* C23: the analyzer evaluates every threshold: each ends up Met or Unmet
\* with its ActualValue recorded, and in a list of percentile thresholds a
\* threshold that has insufficient data, or percentile 0, does not prevent
\* the evaluation of the thresholds after it.
C23_EveryThresholdEvaluated ==
    Called("Percentile") =>
        LET r == report[1]
            n == Len(r.stats.valuesTODU)
        IN  \A i \in 1 .. Len(r.limits) :
                r.limits[i].Percentile > 0 /\ n >= ValuesNeeded(r.limits[i].Percentile)
                    => /\ Evaluated(r.out.t[i])
                       /\ r.out.t[i].Unmet <=> r.out.t[i].ActualValue[1] > r.limits[i].Duration

\* ---- properties of the report
\* the thresholds of an Expectation, and whether one of them is Unmet
UnmetIn(e, fields) == \E f \in fields : \E k \in 1 .. Len(e[f]) : e[f][k].Unmet
SomeUnmet(e) == UnmetIn(e, PointerFields \cup ListFields)

\* C21: GenerateResultsReport returns true, and RunFromCommandlineArgs exits
\* with status 3, iff at least one threshold of at least one step is Unmet;
\* the overall HasUnmetExpectation flag is the disjunction of the flags of
\* the steps.
C21_UnmetIffSomeThresholdUnmet ==
    Called("Report") =>
        LET out == report[1].out
            steps == out.StatsByStep
        IN  /\ out.unmetExpectation <=> \E i \in 1 .. Len(steps) : SomeUnmet(steps[i].Expectation)
            /\ exited = <<3>> <=> out.unmetExpectation
            /\ exited \in {<< >>, <<3>>}
            /\ \A i \in 1 .. Len(steps) : steps[i].HasUnmetExpectation <=> SomeUnmet(steps[i].Expectation)
            /\ out.OverallStats.HasUnmetExpectation <=> \E i \in 1 .. Len(steps) : steps[i].HasUnmetExpectation

\* two steps, the first with an unmet status code threshold and nothing
\* else unmet, the second with every threshold met: exit status 3
C21_Witness ==
    /\ Called("Report")
    /\ Len(report[1].out.StatsByStep) = 2
    /\ UnmetIn(report[1].out.StatsByStep[1].Expectation, {"StatusCodeThresholds"})
    /\ ~UnmetIn(report[1].out.StatsByStep[1].Expectation,
                (PointerFields \cup ListFields) \ {"StatusCodeThresholds"})
    /\ ~report[1].out.StatsByStep[2].HasUnmetExpectation
    /\ exited = <<3>>

\* the entries of the logs of a step in the order of the directory
RECURSIVE Pooled(_, _)
Pooled(runs, name) ==
    IF runs = << >> THEN << >>
    ELSE (IF Head(runs).name = name THEN Head(runs).entries ELSE << >>) \o Pooled(Tail(runs), name)
RECURSIVE AllPooled(_)
AllPooled(runs) == IF runs = << >> THEN << >> ELSE Head(runs).entries \o AllPooled(Tail(runs))
RECURSIVE SumOf(_, _)
SumOf(entries, field) == IF entries = << >> THEN 0 ELSE Head(entries)[field] + SumOf(Tail(entries), field)
NumberOf(entries, field) == Cardinality({i \in 1 .. Len(entries) : entries[i][field]})
RECURSIVE DurationsOf(_, _)
DurationsOf(entries, landmark) ==
    IF entries = << >> THEN << >>
    ELSE LET ts == Head(entries).Timestamps
             from == IF landmark = "TARS" THEN ts.WroteRequest ELSE ts.Start
             to == IF landmark = "TRRT" THEN ts.Done ELSE ts.GotFirstResponseByte
             set == IF landmark = "TRRT" THEN ts.Done # 0
                    ELSE ts.GotFirstResponseByte # 0 /\ ts.WroteRequest # 0
         IN  (IF set THEN <<Max0(to - from)>> ELSE << >>) \o DurationsOf(Tail(entries), landmark)
\* the statistics of the pooled entries
PooledStats(stats, entries) ==
    /\ stats.Counts = [Requests |-> Len(entries), Timeouts |-> NumberOf(entries, "Timeout"),
                       Failures |-> NumberOf(entries, "AssertionFailed"),
                       Errors |-> NumberOf(entries, "Error")]
    /\ stats.RequestBytes = SumOf(entries, "RequestSize")
    /\ stats.ResponseBytes = SumOf(entries, "ResponseSize")
    /\ stats.TTFB = DurationsOf(entries, "TTFB")
    /\ stats.TARS = DurationsOf(entries, "TARS")
    /\ stats.TRRT = DurationsOf(entries, "TRRT")
    /\ \A c \in {200, 502} :
          CopiesIn(c, stats.StatusCodes) = Cardinality({i \in 1 .. Len(entries) : entries[i].StatusCode = c})
    /\ BagCardinality(stats.StatusCodes) = Cardinality({i \in 1 .. Len(entries) : entries[i].StatusCode > 0})
    /\ \A i \in 1 .. Len(entries) :
          /\ entries[i].Error =>
                CopiesIn(entries[i].ErrorRootCause, stats.ErrorTypes)
                    = Cardinality({j \in 1 .. Len(entries) :
                          entries[j].Error /\ entries[j].ErrorRootCause = entries[i].ErrorRootCause})
          /\ entries[i].Timeout =>
                CopiesIn(entries[i].TimeoutRootCause, stats.TimeoutTypes)
                    = Cardinality({j \in 1 .. Len(entries) :
                          entries[j].Timeout /\ entries[j].TimeoutRootCause = entries[i].TimeoutRootCause})
          /\ entries[i].AssertionFailed =>
                CopiesIn(entries[i].AssertionFailedRootCause, stats.FailureTypes)
                    = Cardinality({j \in 1 .. Len(entries) :
                          entries[j].AssertionFailed
                          /\ entries[j].AssertionFailedRootCause = entries[i].AssertionFailedRootCause})
    /\ BagCardinality(stats.ErrorTypes) = NumberOf(entries, "Error")
    /\ BagCardinality(stats.TimeoutTypes) = NumberOf(entries, "Timeout")
    /\ BagCardinality(stats.FailureTypes) = NumberOf(entries, "AssertionFailed")

\* C22: when several step logs below the report directory carry the same
\* step name, the Counts of the step are the sums of the Counts of the logs,
\* its byte totals the sums, its frequency maps the key-wise sums and its
\* TTFB/TARS/TRRT vectors the concatenation of the vectors of the logs: the
\* statistics of the entries of all its logs; the overall Counts are the
\* sums over all steps.
C22_MergedLogs ==
    Called("Report") /\ report[1].reportPath # << >> =>
        LET r == report[1]
            names == r.out.StepNamesInChronologicalOrder
        IN  /\ Len(r.out.StatsByStep) = Len(names)
            /\ {names[i] : i \in 1 .. Len(names)} = {r.runs[i].name : i \in 1 .. Len(r.runs)}
            /\ \A i \in 1 .. Len(names) : PooledStats(r.out.StatsByStep[i], Pooled(r.runs, names[i]))
            /\ r.out.OverallStats.Counts.Requests = Len(AllPooled(r.runs))
            /\ r.out.OverallStats.Counts.Timeouts = NumberOf(AllPooled(r.runs), "Timeout")
            /\ r.out.OverallStats.Counts.Failures = NumberOf(AllPooled(r.runs), "AssertionFailed")
            /\ r.out.OverallStats.Counts.Errors = NumberOf(AllPooled(r.runs), "Error")

\* two logs of the same step, both with a request that completed and the
\* first with a timeout
C22_Witness ==
    /\ Called("Report") /\ report[1].reportPath # << >>
    /\ Len(report[1].runs) = 2 /\ report[1].runs[1].name = report[1].runs[2].name
    /\ report[1].out.StatsByStep[1].Counts.Requests = 3
    /\ report[1].out.StatsByStep[1].Counts.Timeouts = 1
    /\ Len(report[1].out.StatsByStep[1].TTFB) = 2
    /\ BagCardinality(report[1].out.StatsByStep[1].StatusCodes) = 2

\* C27: for every step the analyzer reports, Requests = Successes +
\* Failures + Errors + Timeouts and Failures + Errors + Timeouts <= Requests:
\* the subtraction of Successes() does not wrap around.
C27_CountsAddUp ==
    Called("Report") =>
        \A i \in 1 .. Len(report[1].out.StatsByStep) :
            LET c == report[1].out.StatsByStep[i].Counts IN
            /\ c.Failures + c.Errors + c.Timeouts <= c.Requests
            /\ c.Requests = Successes(c) + c.Failures + c.Errors + c.Timeouts

\* ------------------------------------------------- properties of one send
\* C28: every StepEntry written to a step log has Start <= WroteRequest <=
\* GotFirstResponseByte <= Done whenever all four timestamps are set, also
\* when the hooks fire on another goroutine than the one that stamps Start
\* and Done.
C28_TimestampsInOrder ==
    trace.entry # << >> =>
        LET ts == trace.entry[1] IN
        (ts.Start # 0 /\ ts.WroteRequest # 0 /\ ts.GotFirstResponseByte # 0 /\ ts.Done # 0)
            => (ts.Start <= ts.WroteRequest /\ ts.WroteRequest <= ts.GotFirstResponseByte
                /\ ts.GotFirstResponseByte <= ts.Done)

\* C29: in every send Start is stamped, then the request is dispatched, then
\* the response body is fully read (or the error is returned), then Done is
\* stamped: Done is never stamped before the body read has completed.
Position(events, e) == CHOOSE i \in 1 .. Len(events) : events[i] = e
Happened(e) == \E i \in 1 .. Len(trace.events) : trace.events[i] = e
C29_DoneAfterBodyRead ==
    /\ Happened("Done") => Happened("Start") /\ Position(trace.events, "Start") < Position(trace.events, "Done")
    /\ Happened("Done") /\ trace.outcome = "response" =>
          Happened("bodyRead") /\ Position(trace.events, "bodyRead") < Position(trace.events, "Done")

Looping(t) == {u \in UsersOf(t) : us[u].pc \notin {"unborn", "new", "done"}}

\* C38: the looping-users gauge of a scenario is the number of its user tasks
\* that have started and not yet finished looping: it stays within
\* 0..LoopingUsers and is 0 once all user tasks of the scenario have ended,
\* through the ramp-down cutoff or through the end time.
C38_GaugeCountsLoopingUsers ==
    \A t \in Titles :
        /\ currentLoopingUsers[t] = Cardinality(Looping(t))
        /\ currentLoopingUsers[t] \in 0 .. scenarios[t].LoadConfig.LoopingUsers

\* C40: a user's Disabled flag is false at the start of and throughout every
\* invocation of the runner: a user whose flag is set has left its loop, its
\* task has ended, and it has no runner invocation in progress.
C40_DisabledOnlyAtTaskEnd ==
    \A u \in Users :
        /\ InRunner(u) => ~us[u].Disabled
        /\ us[u].Disabled => us[u].pc = "done" /\ us[u].CurrentLoop >= 1
C40_Witness ==
    \E u, v \in Users :
        /\ u # v
        /\ us[u].Disabled /\ us[u].pc = "done" /\ us[u].CurrentLoop = 2
        /\ InRunner(v) /\ us[v].CurrentLoop = 2

EnvironmentsOf(stream) == SelectSeq(stream, LAMBDA m : ~m.def /\ m.type = "Environment")

\* C33: the Environment written to the scenario index carries the start of
\* the run: its Start is not later than the Start timestamp of any StepEntry
\* recorded in the same run.
C33_EnvironmentStartIsRunStart ==
    \A i \in 1 .. Len(EnvironmentsOf(scenariosWriter.stream)) :
        \A k \in DOMAIN files :
            \A j \in 1 .. Len(StepEntriesOf(files[k])) :
                EnvironmentsOf(scenariosWriter.stream)[i].val.Start
                    <= StepEntriesOf(files[k])[j].val.Timestamps.Start

ClosedBy(name) == {c \in Callers : name \in td[c].visited}

\* C37: the teardown body runs at most once per run: the scenario index
\* stream (version, Environment, scenarios) is never written twice and no
\* step writer is closed twice, and when the interrupt handler and Run have
\* both called writeSummaryAndCloseFiles and both calls have returned, the
\* index of a run with a report folder is written exactly once and each step
\* writer is closed exactly once.
C37_TeardownBodyRunsOnce ==
    /\ Len(EnvironmentsOf(scenariosWriter.stream)) <= 1
    /\ \A name \in DOMAIN stepHistogramWriters : Cardinality(ClosedBy(name)) <= 1
    /\ (\A c \in Callers : td[c].pc = "done") =>
          /\ scenariosWriter.created => Len(EnvironmentsOf(scenariosWriter.stream)) = 1
          /\ \A name \in DOMAIN stepHistogramWriters :
                Cardinality(ClosedBy(name)) = 1 /\ stepHistogramWriters[name].closed

\* the tasks that read or write the writer registry in this state
RegistryWriters == {u \in Users : us[u].pc \in {"create", "init"}}
RegistryRangers == {c \in Callers : td[c].pc = "range" /\ td[c].startKeys \ td[c].visited # {}}

\* C34: every read and every write of the registry of step writers happens
\* while the registry lock is held, in ArchiveStats and in the teardown
\* alike, so no registry access overlaps a registry modification.
C34_RegistryAccessUnderLock ==
    /\ \A u \in RegistryWriters : histogramLock = u
    /\ \A c \in RegistryRangers : histogramLock = CallOf(c)
    /\ RegistryRangers # {} => RegistryWriters = {}

\* an ArchiveStats call of the user has begun and has not returned
Calling(u) ==
    /\ us[u].rsp # << >>
    /\ \/ us[u].pc = "chain" /\ us[u].archCalls < scenarios[TitleOf(u)].Runner.archives
       \/ us[u].pc \in {"create", "init", "entry", "encode"}
\* the tasks: the user tasks and the two calls of the teardown
Tasks == Users \cup {CallOf(c) : c \in Callers}
\* the holders of the locks a task is about to take
Holder(lock) == IF lock = Unlocked THEN {} ELSE {lock}
UserWaitsFor(u) ==
    IF us[u].pc = "chain" /\ Calling(u) /\ ShouldArchive(us[u].rsp[1]) THEN Holder(histogramLock)
    ELSE IF us[u].pc \in {"init", "entry"}
         THEN Holder(stepHistogramWriters[us[u].rsp[1].Step.Name].lock)
         ELSE {}
CallerWaitsFor(c) ==
    IF td[c].pc = "lock" THEN (IF closeLock = None THEN {} ELSE {CallOf(closeLock)})
    ELSE IF td[c].pc = "range"
         THEN UNION {Holder(stepHistogramWriters[n].lock) :
                        n \in DOMAIN stepHistogramWriters \ td[c].visited}
         ELSE {}
WaitsFor(x) == IF Len(x) = 1 THEN CallerWaitsFor(x[1]) ELSE UserWaitsFor(x)
RECURSIVE WaitsForClosure(_, _)
WaitsForClosure(S, k) ==
    IF k = 0 THEN S ELSE WaitsForClosure(S \cup UNION {WaitsFor(y) : y \in S}, k - 1)
NoLockCycle == \A x \in Tasks : x \notin WaitsForClosure(WaitsFor(x), Cardinality(Tasks))

\* C39: no interleaving of user tasks calling ArchiveStats with a teardown
\* deadlocks: no task waits for a lock whose holder waits, directly or through
\* other tasks, for a lock of the first, and every ArchiveStats call and every
\* teardown call that has begun returns, unless the process exits first.
C39_NoDeadlock ==
    /\ []NoLockCycle
    /\ \A u \in Users : Calling(u) ~> (~Calling(u) \/ ~Alive)
    /\ \A c \in Callers : (td[c].pc \notin {"idle", "done"}) ~> (td[c].pc = "done" \/ ~Alive)
\* a user waits for the lock of a writer the handler's teardown has closed,
\* and the teardown waits for the lock of a writer another user encodes on
C39_Witness ==
    \E u, v \in Users :
        /\ us[u].pc = "entry" /\ WaitsFor(u) = {CallOf("sig")}
        /\ td["sig"].pc = "range" /\ WaitsFor(CallOf("sig")) = {v}
        /\ us[v].pc = "encode"

\* the step log of a registered step name
LogOf(name) == files[stepHistogramWriters[name].file]
\* writeStepNameInit has returned for the writer of `name` without its header
HeaderLost(name) ==
    /\ name \in DOMAIN stepHistogramWriters
    /\ ~\E u \in OnStep(name) : us[u].pc \in {"create", "init"}
    /\ LogOf(name) = << >>
\* the Response of the user is marked archived and its StepEntry is in no log
EntryLost(u) ==
    /\ us[u].rsp # << >> /\ us[u].rsp[1].archived
    /\ ~\E j \in 1 .. Len(StepEntriesOf(LogOf(us[u].rsp[1].Step.Name))) :
           StepEntriesOf(LogOf(us[u].rsp[1].Step.Name))[j].val = stepEntry(us[u].rsp[1])

\* C32: an I/O error of the trace store during a run is fatal: the process
\* does not go on after a step header or a StepEntry was not written, and no
\* Response is marked archived whose StepEntry was not written.
C32_StoreErrorIsFatal ==
    /\ \A u \in Users : ~EntryLost(u)
    /\ Alive => \A name \in StepNames : ~HeaderLost(name)

\* C31: on every send each registered request interceptor is invoked exactly
\* once, in registration order, before dispatch, and the dispatched request
\* carries the diagnostic headers that are enabled, with the scenario title
\* and step name and with the user index and loop index, whatever the
\* interceptors did to the request (the header names as the code spells
\* them).
C31_InterceptorsThenDiagnosticHeaders ==
    trace.dispatched # << >> =>
        /\ trace.invoked = trace.requestInterceptors
        /\ trace.AddScenarioStepHeader =>
              trace.dispatched[1]["Goverrun-Scenario-Step"] = <<"s1", ": ", "a">>
        /\ trace.AddUserLoopHeader =>
              trace.dispatched[1]["Goverrun-User-Loop"] = <<"1", "/", "1", "2">>

\* C36: the analyzer lists the step names in the order in which the run
\* first created their step logs, for every number of distinct steps,
\* ten and more included.
C36_StepsInCreationOrder ==
    Called("Walk") =>
        /\ Len(report[1].out) = report[1].steps
        /\ \A i \in 1 .. report[1].steps : report[1].out[i] = NthStep(i)

\* C35: for every step log, also one whose stream ends in a decode error
\* other than io.EOF, the parse of the file terminates and counts as requests
\* exactly the entries it decoded, and the report of the folder is produced
Analyzing == Called("Analyze")
C35_DecodeErrorIsSkipped ==
    /\ [](Analyzing => report[1].parse.Requests = report[1].parse.decoded)
    /\ (Analyzing ~> (Analyzing /\ report[1].pc = "done"))
====
